---- MODULE Spec2Model ----
(***************************************************************************)
(* Model of the skill-execution subsystem of the Task Management API:      *)
(* the dispatcher app/services/skill_service.py and the generators under   *)
(* app/skills; and of its task store, app/services/task_service.py behind  *)
(* app/routers/tasks.py.                                                   *)
(*                                                                         *)
(* Representation.                                                         *)
(*   - A Python str is a TLA+ string.  None is the sentinel None.          *)
(*   - A Python list is a sequence; a Python dict whose key order matters  *)
(*     (the static tables) is a sequence of <<key, value>> pairs.          *)
(*   - A caller's input map is a function from the keys it holds to their  *)
(*     values.                                                             *)
(*   - A rendered text is the sequence of its lines ("\n".join(lines));    *)
(*     a line is the sequence of the fragments its f-string concatenates.  *)
(*   - A call either returns a value or raises: Return(v) / Raise(t, m).   *)
(***************************************************************************)
EXTENDS Integers, Sequences, FiniteSets, TLC

VARIABLES clock, call, ret, adapter_ret, db, issued, removed, sessions, resp

\* The task store: the rows of the tasks table, the ids create_task has handed
\* out, the ids a DELETE has removed, the request each worker has in flight
\* and the last response sent.
store_vars == <<db, issued, removed, sessions, resp>>

vars == <<clock, call, ret, adapter_ret, db, issued, removed, sessions, resp>>

(***************************************************************************)
(* Bounds of the model.                                                    *)
(***************************************************************************)
MaxClock == 1

MaxTasks == 2

\* The longest task list given to generate_daily_summary directly.
MaxSummaryTasks == 4

(***************************************************************************)
(* Python values and helpers.                                              *)
(***************************************************************************)
None == "None:NoneType"

\* Strings made of whitespace only: str.strip() maps them to "".
WhitespaceOnly == {" ", "  "}

\* str.strip() on the strings of the model (none has whitespace at an end
\* unless it is whitespace only).
strip(s) == IF s \in WhitespaceOnly THEN "" ELSE s

\* Truth value of a str-or-None: None and "" are falsy.
Truthy(s) == s # None /\ s # ""

\* The test `not x or not x.strip()` of the validate() methods.
Blank(s) == ~Truthy(s) \/ ~Truthy(strip(s))

Return(v) == [raised |-> FALSE, value |-> v]

Raise(t, m) == [raised |-> TRUE, type |-> t, msg |-> m]

\* dict.get(key, default) on an ordered dict (sequence of <<key, value>>).
DictHas(d, k) == \E i \in DOMAIN d : d[i][1] = k

DictGet(d, k, default) ==
    IF DictHas(d, k)
    THEN d[CHOOSE i \in DOMAIN d : d[i][1] = k][2]
    ELSE default

\* list(d.keys()): the keys in insertion order.
DictKeys(d) == [i \in DOMAIN d |-> d[i][1]]

\* input_payload.get(key, default) on a caller's map.
Get(m, k, default) == IF k \in DOMAIN m THEN m[k] ELSE default

\* sep.join(items) as fragments.
RECURSIVE Join(_, _)
Join(sep, items) ==
    IF Len(items) = 0 THEN <<>>
    ELSE IF Len(items) = 1 THEN <<items[1]>>
    ELSE <<items[1], sep>> \o Join(sep, Tail(items))

\* str(list_of_str): "['a', 'b']" as fragments.
ListRepr(l) ==
    <<"[">> \o Join(", ", [i \in DOMAIN l |-> "'" \o l[i] \o "'"]) \o <<"]">>

\* "\n".join(lines) where every element of lines is itself a text (a
\* sequence of one or more lines): the lines of the elements in order.
RECURSIVE JoinLines(_)
JoinLines(texts) ==
    IF Len(texts) = 0 THEN <<>>
    ELSE Head(texts) \o JoinLines(Tail(texts))

\* A text of one line made of the given fragments.
Line(frags) == << frags >>

\* The empty str as a text: one line without fragments.
EmptyText == << <<>> >>

\* str.upper() on the strings the templates upper-case.
upper(s) ==
    CASE s = "firewall" -> "FIREWALL"
      [] s = "f5"       -> "F5"
      [] s = "circuit"  -> "CIRCUIT"
      [] s = "prod"     -> "PROD"
      [] s = "uat"      -> "UAT"
      [] s = "low"      -> "LOW"
      [] s = "medium"   -> "MEDIUM"
      [] s = "high"     -> "HIGH"
      [] s = "bogus"    -> "BOGUS"

\* s.replace('_', ' ').title() on the keys the templates title-case.
replace_title(s) ==
    CASE s = "high_cpu"          -> "High Cpu"
      [] s = "connectivity_loss" -> "Connectivity Loss"
      [] s = "pool_down"         -> "Pool Down"
      [] s = "ssl_error"         -> "Ssl Error"
      [] s = "latency"           -> "Latency"
      [] s = "flapping"          -> "Flapping"
      [] s = "firewall_rule"     -> "Firewall Rule"
      [] s = "nat_change"        -> "Nat Change"
      [] s = "f5_ssl"            -> "F5 Ssl"
      [] s = "routing_change"    -> "Routing Change"
      [] s = "acl_update"        -> "Acl Update"
      [] s = "vpn_config"        -> "Vpn Config"
      [] s = "bogus"             -> "Bogus"

\* datetime.now(timezone.utc).strftime("%Y-%m-%d %H:%M UTC"): the clock
\* reading (in minutes) as text.
get_current_timestamp(now) == ToString(now) \o " UTC"

(***************************************************************************)
(* app/skills/reused/runbook_generator.py                                  *)
(***************************************************************************)
GuiStep(text) == [step |-> text, mode |-> "gui_only"]

PLAYBOOKS == <<
  <<"firewall", [
     name |-> "Firewall Troubleshooting",
     escalation_path |-> "Contact Firewall Team Lead or Security Operations",
     symptoms |-> <<
       <<"high_cpu", [
          explanation |-> "Firewall CPU utilization exceeds normal thresholds, potentially impacting traffic inspection.",
          diagnostic_steps |-> <<
             GuiStep("Check CPU utilization in dashboard"),
             GuiStep("Review active connections count"),
             GuiStep("Check for unusual traffic patterns in logs"),
             GuiStep("Verify NAT session counts"),
             GuiStep("Review recent policy changes") >>,
          evidence_checklist |-> <<
             "Screenshot of CPU utilization graph (last 24h)",
             "Active connection count",
             "Top talkers report",
             "Recent policy change log" >>,
          stop_conditions |-> <<
             "CPU exceeds 95% for more than 5 minutes",
             "Packet drops reported",
             "Management interface unresponsive" >> ]>>,
       <<"connectivity_loss", [
          explanation |-> "Traffic is not passing through the firewall as expected.",
          diagnostic_steps |-> <<
             GuiStep("Verify interface status in dashboard"),
             GuiStep("Check policy rules for the affected traffic"),
             GuiStep("Review deny logs for blocked traffic"),
             GuiStep("Verify NAT rules if applicable"),
             GuiStep("Check routing table entries") >>,
          evidence_checklist |-> <<
             "Interface status screenshot",
             "Relevant policy rules screenshot",
             "Deny log entries for affected source/destination",
             "NAT configuration if applicable" >>,
          stop_conditions |-> <<
             "Multiple zones affected",
             "Unable to identify blocking rule",
             "Suspected security incident" >> ]>> >> ]>>,
  <<"f5", [
     name |-> "F5 Load Balancer Troubleshooting",
     escalation_path |-> "Contact F5 Team Lead or Application Delivery",
     symptoms |-> <<
       <<"pool_down", [
          explanation |-> "One or more pool members are marked down, affecting load balancing.",
          diagnostic_steps |-> <<
             GuiStep("Check pool member status in GUI"),
             GuiStep("Review health monitor results"),
             GuiStep("Verify backend server connectivity"),
             GuiStep("Check for SSL certificate issues"),
             GuiStep("Review pool statistics for error patterns") >>,
          evidence_checklist |-> <<
             "Pool status screenshot",
             "Health monitor configuration",
             "Recent pool statistics",
             "Backend server health check results" >>,
          stop_conditions |-> <<
             "All pool members down",
             "SSL handshake failures increasing",
             "Application team reports service outage" >> ]>>,
       <<"ssl_error", [
          explanation |-> "SSL/TLS termination issues affecting client connections.",
          diagnostic_steps |-> <<
             GuiStep("Check SSL profile configuration"),
             GuiStep("Verify certificate validity and chain"),
             GuiStep("Review cipher suite settings"),
             GuiStep("Check client-side SSL logs"),
             GuiStep("Verify SNI configuration if applicable") >>,
          evidence_checklist |-> <<
             "Certificate details screenshot",
             "SSL profile configuration",
             "Error log entries",
             "Cipher suite list" >>,
          stop_conditions |-> <<
             "Certificate expired",
             "Certificate chain incomplete",
             "Multiple applications affected" >> ]>> >> ]>>,
  <<"circuit", [
     name |-> "Circuit/WAN Troubleshooting",
     escalation_path |-> "Contact Network Operations or Carrier Support",
     symptoms |-> <<
       <<"latency", [
          explanation |-> "Network latency exceeds acceptable thresholds for the circuit.",
          diagnostic_steps |-> <<
             GuiStep("Check interface error counters"),
             GuiStep("Review bandwidth utilization graphs"),
             GuiStep("Verify QoS policy application"),
             GuiStep("Check for packet drops at interface"),
             GuiStep("Review carrier SLA metrics if available") >>,
          evidence_checklist |-> <<
             "Latency graph (last 24h)",
             "Bandwidth utilization graph",
             "Interface error counters",
             "QoS policy screenshot" >>,
          stop_conditions |-> <<
             "Latency exceeds SLA threshold",
             "Packet loss detected",
             "Circuit errors increasing" >> ]>>,
       <<"flapping", [
          explanation |-> "Circuit or interface is repeatedly going up and down.",
          diagnostic_steps |-> <<
             GuiStep("Check interface status history"),
             GuiStep("Review optical power levels if fiber"),
             GuiStep("Check for physical layer errors"),
             GuiStep("Verify both ends report same status"),
             GuiStep("Review recent changes at physical layer") >>,
          evidence_checklist |-> <<
             "Interface state change log",
             "Optical power readings",
             "Physical layer error counters",
             "Both-end status comparison" >>,
          stop_conditions |-> <<
             "Flapping continues after 15 minutes",
             "Multiple circuits affected",
             "Physical layer errors increasing" >> ]>> >> ]>> >>

\* RunbookInput.validate: the list of errors, domain first.
RunbookInput_validate(domain, symptom_category) ==
    (IF Blank(domain) THEN <<"domain is required">> ELSE <<>>)
    \o (IF Blank(symptom_category)
        THEN <<"symptom_category is required">> ELSE <<>>)

\* The loop `for i, step in enumerate(context["diagnostic_steps"], 1)` of
\* render_runbook_template: one "{i}. {step_text}" line per step.
numbered_steps_from_zero(diagnostic_steps) ==
    [i \in DOMAIN diagnostic_steps |->
        Line(<<ToString(i - 1), ". ", diagnostic_steps[i].step>>)]

numbered_steps(diagnostic_steps) ==
    [i \in DOMAIN diagnostic_steps |->
        Line(<<ToString(i), ". ", diagnostic_steps[i].step>>)]

\* render_runbook_template(context)
render_runbook_template(context) ==
    JoinLines(
      << Line(<<"# Troubleshooting Runbook: ", upper(context.domain), " - ",
                replace_title(context.symptom_category)>>),
         EmptyText,
         Line(<<"**Environment:** ", upper(context.environment),
                " | **Access Mode:** ", context.access_mode>>),
         Line(<<"**Generated:** ", context.timestamp>>),
         EmptyText,
         Line(<<"## Symptom Explanation">>),
         Line(<<context.symptom_explanation>>),
         EmptyText,
         Line(<<"## Safe Diagnostic Steps">>) >>
      \o numbered_steps(context.diagnostic_steps)
      \o << EmptyText, Line(<<"## Evidence Checklist">>) >>
      \o [i \in DOMAIN context.evidence_checklist |->
            Line(<<"- [ ] ", context.evidence_checklist[i]>>)]
      \o << EmptyText, Line(<<"## STOP Conditions (Escalate Immediately)">>) >>
      \o [i \in DOMAIN context.stop_conditions |->
            Line(<<"- ", context.stop_conditions[i]>>)]
      \o << EmptyText,
            Line(<<"**Escalation Path:** ", context.escalation_path>>) >>)

\* `raise ValueError(f"Invalid input: {', '.join(errors)}")`
invalid_input_error(errors) ==
    Raise("ValueError", <<"Invalid input: ">> \o Join(", ", errors))

\* The failure of generate_runbook for a domain without playbook.
runbook_domain_error_as_invalid_input(domain) ==
    Raise("ValueError",
          <<"Invalid input: ", "No playbook found for domain: ", domain,
            ". Available: ">> \o ListRepr(DictKeys(PLAYBOOKS)))

runbook_domain_error(domain) ==
    Raise("ValueError",
          <<"No playbook found for domain: ", domain, ". Available: ">>
          \o ListRepr(DictKeys(PLAYBOOKS)))

\* The failure of generate_runbook for a symptom the domain does not have;
\* symptoms is the symptom table of the domain's playbook.
runbook_symptom_error_all_domains(symptom_category, domain, symptoms) ==
    Raise("ValueError",
          <<"Unknown symptom '", symptom_category, "' for domain '", domain,
            "'. ", "Available: ">>
          \o ListRepr(JoinLines([i \in DOMAIN PLAYBOOKS |->
                                   DictKeys(PLAYBOOKS[i][2].symptoms)])))

runbook_symptom_error(symptom_category, domain, symptoms) ==
    Raise("ValueError",
          <<"Unknown symptom '", symptom_category, "' for domain '", domain,
            "'. ", "Available: ">> \o ListRepr(DictKeys(symptoms)))

\* The context generate_runbook builds, rendered.
runbook_render(domain, symptom_category, access_mode, environment, now) ==
    LET playbook == DictGet(PLAYBOOKS, domain, None)
        symptom_data == DictGet(playbook.symptoms, symptom_category, None)
    IN  Return(render_runbook_template(
               [domain |-> domain,
                symptom_category |-> symptom_category,
                access_mode |-> access_mode,
                environment |-> environment,
                symptom_explanation |-> symptom_data.explanation,
                diagnostic_steps |-> symptom_data.diagnostic_steps,
                evidence_checklist |-> symptom_data.evidence_checklist,
                stop_conditions |-> symptom_data.stop_conditions,
                escalation_path |-> playbook.escalation_path,
                timestamp |-> get_current_timestamp(now)]))

\* generate_runbook with the playbook lookup ahead of the validation.
generate_runbook_lookup_first(domain, symptom_category, access_mode, environment, now) ==
    LET errors == RunbookInput_validate(domain, symptom_category)
        symptoms == DictGet(PLAYBOOKS, domain, None).symptoms
    IN  IF ~DictHas(PLAYBOOKS, domain)
        THEN runbook_domain_error(domain)
        ELSE IF Len(errors) > 0
        THEN invalid_input_error(errors)
        ELSE IF ~DictHas(symptoms, symptom_category)
        THEN runbook_symptom_error(symptom_category, domain, symptoms)
        ELSE runbook_render(domain, symptom_category, access_mode,
                            environment, now)

\* generate_runbook(domain, symptom_category, access_mode, environment),
\* reading the clock at `now`.
generate_runbook(domain, symptom_category, access_mode, environment, now) ==
    LET errors == RunbookInput_validate(domain, symptom_category)
        symptoms == DictGet(PLAYBOOKS, domain, None).symptoms
    IN  IF Len(errors) > 0
        THEN invalid_input_error(errors)
        ELSE IF ~DictHas(PLAYBOOKS, domain)
        THEN runbook_domain_error(domain)
        ELSE IF ~DictHas(symptoms, symptom_category)
        THEN runbook_symptom_error(symptom_category, domain, symptoms)
        ELSE runbook_render(domain, symptom_category, access_mode,
                            environment, now)

\* runbook_generator.generate_from_dict(data)
runbook_generate_from_dict(data, now) ==
    generate_runbook(Get(data, "domain", ""),
                     Get(data, "symptom_category", ""),
                     Get(data, "access_mode", "gui_only"),
                     Get(data, "environment", "prod"),
                     now)

(***************************************************************************)
(* app/skills/reused/incident_update.py                                    *)
(***************************************************************************)
\* str.title() on the status values the templates title-case.
title(s) ==
    CASE s = "investigating" -> "Investigating"
      [] s = "identified"    -> "Identified"
      [] s = "mitigating"    -> "Mitigating"
      [] s = "resolved"      -> "Resolved"
      [] s = "unknown"       -> "Unknown"
      [] s = "Resolved"      -> "Resolved"

\* format_bullet_list(items): "" for no items, else one "- item" line each.
format_bullet_list(items) ==
    IF Len(items) = 0 THEN EmptyText
    ELSE JoinLines([i \in DOMAIN items |-> Line(<<"- ", items[i]>>)])

\* format_numbered_list(items, start=1)
format_numbered_list(items) ==
    IF Len(items) = 0 THEN EmptyText
    ELSE JoinLines([i \in DOMAIN items |->
                      Line(<<ToString(i), ". ", items[i]>>)])

\* DEFAULTS["incident"]["next_steps"]
INCIDENT_NEXT_STEPS == <<
    <<"investigating", <<"Continue analyzing logs and alerts",
                         "Gather additional evidence",
                         "Identify root cause">> >>,
    <<"identified",    <<"Implement fix",
                         "Test in staging environment",
                         "Schedule production deployment">> >>,
    <<"mitigating",    <<"Monitor service recovery",
                         "Validate fix effectiveness",
                         "Document resolution steps">> >>,
    <<"resolved",      <<"Complete post-incident documentation",
                         "Schedule post-mortem meeting",
                         "Update runbooks if needed">> >> >>

\* DEFAULTS["incident"]["next_update_time"]
INCIDENT_NEXT_UPDATE_TIME == <<
    <<"P1", "30 minutes">>,
    <<"P2", "1 hour">>,
    <<"P3", "2 hours">>,
    <<"P4", "4 hours">> >>

\* DEFAULTS["incident"]["evidence_checklist"]
INCIDENT_EVIDENCE_CHECKLIST == <<
    "Screenshots of error messages/alerts",
    "Relevant log entries with timestamps",
    "Timeline of events" >>

\* IncidentInput.validate returning at the first error found.
IncidentInput_validate_first_only(incident_title, impact_summary) ==
    IF Blank(incident_title) THEN <<"incident_title is required">>
    ELSE IF Blank(impact_summary) THEN <<"impact_summary is required">>
    ELSE <<>>

\* IncidentInput.validate: the list of errors, incident_title first.
IncidentInput_validate(incident_title, impact_summary) ==
    (IF Blank(incident_title) THEN <<"incident_title is required">> ELSE <<>>)
    \o (IF Blank(impact_summary)
        THEN <<"impact_summary is required">> ELSE <<>>)

get_next_steps(status) ==
    DictGet(INCIDENT_NEXT_STEPS, status, <<"Continue investigation">>)

\* get_next_update_time as time_map.get(severity), without the default.
get_next_update_time_without_default(severity) ==
    DictGet(INCIDENT_NEXT_UPDATE_TIME, severity, None)

get_next_update_time(severity) ==
    DictGet(INCIDENT_NEXT_UPDATE_TIME, severity, "1 hour")

\* get_evidence_checklist with its test inverted.
get_evidence_checklist_inverted(has_evidence) ==
    IF has_evidence THEN INCIDENT_EVIDENCE_CHECKLIST ELSE <<>>

get_evidence_checklist(has_evidence) ==
    IF has_evidence THEN <<>> ELSE INCIDENT_EVIDENCE_CHECKLIST

render_manager_template(context) ==
    JoinLines(
      << Line(<<"# Incident Update: ", context.incident_title>>),
         EmptyText,
         Line(<<"**Severity:** ", context.severity, " | **Status:** ",
                title(context.current_status)>>),
         Line(<<"**Generated:** ", context.timestamp>>),
         EmptyText,
         Line(<<"## Impact Summary">>),
         Line(<<context.impact_summary>>),
         EmptyText >>
      \o (IF context.has_checks
          THEN << Line(<<"## Diagnostic Checks Completed">>),
                  context.checks_done_formatted,
                  EmptyText >>
          ELSE <<>>)
      \o (IF context.has_evidence
          THEN << Line(<<"## Evidence Collected">>),
                  context.evidence_formatted,
                  EmptyText >>
          ELSE << Line(<<"## Evidence To Collect">>),
                  context.evidence_checklist_formatted,
                  EmptyText >>)
      \o << Line(<<"## Next Steps">>),
            context.next_steps_formatted,
            EmptyText,
            Line(<<"**Next Update:** ", context.next_update_time>>) >>)

\* render_client_template with the status line of the manager template.
render_client_template_with_severity(context) ==
    JoinLines(
      << Line(<<"# Service Update: ", context.incident_title>>),
         EmptyText,
         Line(<<"**Severity:** ", context.severity, " | **Status:** ",
                title(context.current_status)>>),
         Line(<<"**Updated:** ", context.timestamp>>),
         EmptyText,
         Line(<<"## Current Situation">>),
         Line(<<context.impact_summary>>),
         EmptyText,
         Line(<<"## What We're Doing">>) >>
      \o [i \in 1..(IF Len(context.next_steps) < 2
                    THEN Len(context.next_steps) ELSE 2) |->
            Line(<<"- ", context.next_steps[i]>>)]
      \o << EmptyText,
            Line(<<"We will provide another update in ",
                   context.next_update_time, ".">>),
            EmptyText,
            Line(<<"Thank you for your patience.">>) >>)

render_client_template(context) ==
    JoinLines(
      << Line(<<"# Service Update: ", context.incident_title>>),
         EmptyText,
         Line(<<"**Status:** ", title(context.current_status)>>),
         Line(<<"**Updated:** ", context.timestamp>>),
         EmptyText,
         Line(<<"## Current Situation">>),
         Line(<<context.impact_summary>>),
         EmptyText,
         Line(<<"## What We're Doing">>) >>
      \o [i \in 1..(IF Len(context.next_steps) < 2
                    THEN Len(context.next_steps) ELSE 2) |->
            Line(<<"- ", context.next_steps[i]>>)]
      \o << EmptyText,
            Line(<<"We will provide another update in ",
                   context.next_update_time, ".">>),
            EmptyText,
            Line(<<"Thank you for your patience.">>) >>)

\* `x or []` for a list-or-None argument.
OrEmptyList(x) == IF x = None THEN <<>> ELSE x

generate_incident_update(incident_title, impact_summary, audience, severity, current_status, next_update_time, checks_done, evidence, now) ==
    LET in_checks_done == OrEmptyList(checks_done)
        in_evidence == OrEmptyList(evidence)
        errors == IncidentInput_validate(incident_title, impact_summary)
        in_next_update_time ==
            IF ~Truthy(next_update_time)
            THEN get_next_update_time(severity)
            ELSE next_update_time
        next_steps == get_next_steps(current_status)
        has_evidence == Len(in_evidence) > 0
        evidence_checklist == get_evidence_checklist(has_evidence)
        context ==
            [incident_title |-> incident_title,
             impact_summary |-> impact_summary,
             severity |-> severity,
             current_status |-> current_status,
             next_update_time |-> in_next_update_time,
             checks_done |-> in_checks_done,
             checks_done_formatted |-> format_bullet_list(in_checks_done),
             evidence |-> in_evidence,
             evidence_formatted |-> format_bullet_list(in_evidence),
             evidence_checklist |-> evidence_checklist,
             evidence_checklist_formatted |->
                 format_bullet_list(evidence_checklist),
             next_steps |-> next_steps,
             next_steps_formatted |-> format_numbered_list(next_steps),
             timestamp |-> get_current_timestamp(now),
             has_evidence |-> has_evidence,
             has_checks |-> Len(in_checks_done) > 0]
    IN  IF Len(errors) > 0
        THEN invalid_input_error(errors)
        ELSE IF audience = "client"
        THEN Return(render_client_template(context))
        ELSE Return(render_manager_template(context))

\* incident_update.generate_from_dict(data)
incident_generate_from_dict(data, now) ==
    generate_incident_update(Get(data, "incident_title", ""),
                             Get(data, "impact_summary", ""),
                             Get(data, "audience", "manager"),
                             Get(data, "severity", "P2"),
                             Get(data, "current_status", "investigating"),
                             Get(data, "next_update_time", None),
                             Get(data, "checks_done", <<>>),
                             Get(data, "evidence", <<>>),
                             now)

(***************************************************************************)
(* app/skills/reused/fcr_autofill.py                                       *)
(***************************************************************************)
\* FCRInput.validate testing only `not self.purpose`.
FCRInput_validate_empty_only(purpose) ==
    IF ~Truthy(purpose) THEN <<"purpose is required">> ELSE <<>>

\* FCRInput.validate
FCRInput_validate(purpose) ==
    IF Blank(purpose) THEN <<"purpose is required">> ELSE <<>>

\* The templates as fragments; "{name}" is a replacement field of str.format.
TECHNICAL_DESCRIPTIONS == <<
    <<"firewall_rule", <<"Add firewall rule to ", "{direction}",
                         " traffic for ", "{purpose}", ". Rule count: ",
                         "{rule_count}", ".">> >>,
    <<"nat_change", <<"Configure NAT translation for ", "{purpose}",
                      ". Direction: ", "{direction}", ".">> >>,
    <<"f5_ssl", <<"Update F5 SSL profile/certificate for ", "{purpose}",
                  ".">> >>,
    <<"routing_change", <<"Modify routing configuration for ", "{purpose}",
                          ". Direction: ", "{direction}", ".">> >>,
    <<"acl_update", <<"Update access control list for ", "{purpose}",
                      ". Direction: ", "{direction}", ".">> >>,
    <<"vpn_config", <<"Configure VPN settings for ", "{purpose}", ".">> >> >>

TESTS_BY_TYPE == <<
    <<"firewall_rule", <<"Verify rule syntax in staging/lab environment",
                         "Confirm source/destination objects exist",
                         "Test connectivity with rule in place (lab)",
                         "Verify logging is enabled for new rule">> >>,
    <<"nat_change", <<"Verify NAT translation in lab environment",
                      "Confirm IP addresses are not in use elsewhere",
                      "Test end-to-end connectivity through NAT">> >>,
    <<"f5_ssl", <<"Validate certificate chain completeness",
                  "Verify certificate expiry date",
                  "Test SSL handshake in staging",
                  "Confirm cipher suite compatibility">> >>,
    <<"routing_change", <<"Verify route does not conflict with existing routes",
                          "Test reachability in lab environment",
                          "Confirm BGP/OSPF adjacencies stable after change">> >>,
    <<"acl_update", <<"Verify ACL syntax",
                      "Test ACL in lab environment",
                      "Confirm no unintended traffic blocked">> >>,
    <<"vpn_config", <<"Verify tunnel parameters match peer",
                      "Test tunnel establishment in lab",
                      "Confirm encryption settings are compliant">> >> >>

ROLLBACK_BY_TYPE == <<
    <<"firewall_rule", <<"Remove newly added rule(s)",
                         "Restore previous rule configuration if modified",
                         "Verify traffic flow returns to pre-change state">> >>,
    <<"nat_change", <<"Remove NAT translation entry",
                      "Restore original NAT configuration",
                      "Verify connectivity restored">> >>,
    <<"f5_ssl", <<"Revert to previous SSL profile",
                  "Restore previous certificate",
                  "Verify SSL termination functional">> >>,
    <<"routing_change", <<"Remove added route(s)",
                          "Restore previous routing configuration",
                          "Verify routing table stable">> >>,
    <<"acl_update", <<"Revert ACL to previous version",
                      "Verify traffic flow restored">> >>,
    <<"vpn_config", <<"Disable new VPN configuration",
                      "Restore previous VPN settings",
                      "Verify tunnel stability">> >> >>

IMPACT_BY_RISK == <<
    <<"low", "Minimal impact expected. Change affects limited scope with no service disruption.">>,
    <<"medium", "Moderate impact possible. Brief connectivity interruption may occur during implementation.">>,
    <<"high", "Significant impact possible. Service disruption expected during maintenance window.">> >>

ROLLBACK_TIME == <<
    <<"low", "< 5 minutes">>,
    <<"medium", "5-15 minutes">>,
    <<"high", "15-30 minutes">> >>

CHECKLIST_ITEMS == <<
    "Change reviewed and approved by team lead",
    "Rollback procedure documented and tested",
    "Maintenance window scheduled (if required)",
    "Stakeholders notified",
    "Monitoring alerts configured" >>

EVIDENCE_CHECKLIST == <<
    "Pre-change configuration backup",
    "Screenshot of change implementation",
    "Post-change verification results",
    "Test results documentation" >>

\* tech_template.format(purpose=..., direction=..., rule_count=...)
format_template(template, purpose, direction, rule_count) ==
    [i \in DOMAIN template |->
        CASE template[i] = "{purpose}"    -> purpose
          [] template[i] = "{direction}"  -> direction
          [] template[i] = "{rule_count}" -> rule_count
          [] OTHER                        -> template[i]]

render_fcr_template(context) ==
    JoinLines(
      << Line(<<"# FCR Section Content">>),
         EmptyText,
         Line(<<"**Generated:** ", context.timestamp>>),
         Line(<<"**Change Type:** ", replace_title(context.change_type)>>),
         Line(<<"**Environment:** ", upper(context.environment)>>),
         Line(<<"**Risk Level:** ", upper(context.risk_level)>>),
         EmptyText,
         Line(<<"---">>),
         EmptyText,
         Line(<<"## 1. Purpose / Business Justification">>),
         Line(<<context.purpose>>),
         EmptyText,
         Line(<<"## 2. Technical Description">>),
         Line(context.technical_description),
         EmptyText,
         Line(<<"## 3. Tests Conducted">>) >>
      \o [i \in DOMAIN context.tests_conducted |->
            Line(<<"- [ ] ", context.tests_conducted[i]>>)]
      \o << EmptyText,
            Line(<<"## 4. Impact Assessment">>),
            Line(<<context.impact_statement>>),
            EmptyText,
            Line(<<"**Affected Systems:**">>) >>
      \o [i \in DOMAIN context.affected_systems |->
            Line(<<"- ">> \o context.affected_systems[i])]
      \o << EmptyText,
            Line(<<"## 5. Rollback Procedure">>),
            Line(<<"**Estimated Rollback Time:** ", context.rollback_time>>),
            EmptyText >>
      \o [i \in DOMAIN context.rollback_options |->
            Line(<<ToString(i), ". ", context.rollback_options[i]>>)]
      \o << EmptyText, Line(<<"## 6. Pre-Implementation Checklist">>) >>
      \o [i \in DOMAIN context.checklist_justification |->
            Line(<<"- [ ] ", context.checklist_justification[i]>>)]
      \o << EmptyText, Line(<<"## 7. Evidence Checklist">>) >>
      \o [i \in DOMAIN context.evidence_checklist |->
            Line(<<"- [ ] ", context.evidence_checklist[i]>>)])

\* generate_fcr_content falling back to the rollback time of medium risk.
generate_fcr_content_medium_default(purpose, change_type, rule_count, direction, risk_level, environment, now) ==
    LET errors == FCRInput_validate(purpose)
        tech_template ==
            DictGet(TECHNICAL_DESCRIPTIONS, change_type,
                    DictGet(TECHNICAL_DESCRIPTIONS, "firewall_rule", None))
        context ==
            [purpose |-> purpose,
             change_type |-> change_type,
             rule_count |-> rule_count,
             direction |-> direction,
             risk_level |-> risk_level,
             environment |-> environment,
             technical_description |->
                 format_template(tech_template, purpose, direction,
                                 rule_count),
             tests_conducted |->
                 DictGet(TESTS_BY_TYPE, change_type,
                         DictGet(TESTS_BY_TYPE, "firewall_rule", None)),
             rollback_options |->
                 DictGet(ROLLBACK_BY_TYPE, change_type,
                         DictGet(ROLLBACK_BY_TYPE, "firewall_rule", None)),
             rollback_time |->
                 DictGet(ROLLBACK_TIME, risk_level, "5-15 minutes"),
             impact_statement |->
                 DictGet(IMPACT_BY_RISK, risk_level,
                         DictGet(IMPACT_BY_RISK, "low", None)),
             affected_systems |->
                 << <<upper(environment), " ", replace_title(change_type),
                      " infrastructure">> >>,
             checklist_justification |-> CHECKLIST_ITEMS,
             evidence_checklist |-> EVIDENCE_CHECKLIST,
             timestamp |-> get_current_timestamp(now)]
    IN  IF Len(errors) > 0
        THEN invalid_input_error(errors)
        ELSE Return(render_fcr_template(context))

generate_fcr_content(purpose, change_type, rule_count, direction, risk_level, environment, now) ==
    LET errors == FCRInput_validate(purpose)
        tech_template ==
            DictGet(TECHNICAL_DESCRIPTIONS, change_type,
                    DictGet(TECHNICAL_DESCRIPTIONS, "firewall_rule", None))
        context ==
            [purpose |-> purpose,
             change_type |-> change_type,
             rule_count |-> rule_count,
             direction |-> direction,
             risk_level |-> risk_level,
             environment |-> environment,
             technical_description |->
                 format_template(tech_template, purpose, direction,
                                 rule_count),
             tests_conducted |->
                 DictGet(TESTS_BY_TYPE, change_type,
                         DictGet(TESTS_BY_TYPE, "firewall_rule", None)),
             rollback_options |->
                 DictGet(ROLLBACK_BY_TYPE, change_type,
                         DictGet(ROLLBACK_BY_TYPE, "firewall_rule", None)),
             rollback_time |-> DictGet(ROLLBACK_TIME, risk_level, "< 5 minutes"),
             impact_statement |->
                 DictGet(IMPACT_BY_RISK, risk_level,
                         DictGet(IMPACT_BY_RISK, "low", None)),
             affected_systems |->
                 << <<upper(environment), " ", replace_title(change_type),
                      " infrastructure">> >>,
             checklist_justification |-> CHECKLIST_ITEMS,
             evidence_checklist |-> EVIDENCE_CHECKLIST,
             timestamp |-> get_current_timestamp(now)]
    IN  IF Len(errors) > 0
        THEN invalid_input_error(errors)
        ELSE Return(render_fcr_template(context))

\* fcr_autofill.generate_from_dict(data)
fcr_generate_from_dict(data, now) ==
    generate_fcr_content(Get(data, "purpose", ""),
                         Get(data, "change_type", "firewall_rule"),
                         Get(data, "rule_count", "single"),
                         Get(data, "direction", "inbound"),
                         Get(data, "risk_level", "low"),
                         Get(data, "environment", "prod"),
                         now)

(***************************************************************************)
(* app/skills/task_prioritizer.py                                          *)
(***************************************************************************)
\* str.lower() on the titles, statuses and priorities of the model.
lower(s) ==
    CASE s = "Alpha"       -> "alpha"
      [] s = "Untitled"    -> "untitled"
      [] s = "HIGH"        -> "high"
      [] s \in {"alpha", "beta", "todo", "in_progress", "done", "paused",
                "low", "medium", "high", "urgent"} -> s

\* Position of a lower-cased title in str's ordering (code point order).
StrRank(s) ==
    CASE s = "alpha"    -> 1
      [] s = "beta"     -> 2
      [] s = "untitled" -> 3

PRIORITY_WEIGHT == << <<"high", 3>>, <<"medium", 2>>, <<"low", 1>> >>

STATUS_WEIGHT == << <<"in_progress", 3>>, <<"todo", 2>>, <<"done", 1>> >>

\* TaskItem(title=t.get("title", "Untitled"), status=t.get("status", "todo"),
\*          priority=t.get("priority", "medium"))
PrioritizerTaskItem(t) ==
    [title |-> Get(t, "title", "Untitled"),
     status |-> Get(t, "status", "todo"),
     priority |-> Get(t, "priority", "medium")]

\* TaskItem.sort_key without the minus sign on the priority weight.
sort_key_ascending_priority(task) ==
    << DictGet(PRIORITY_WEIGHT, lower(task.priority), 1),
       0 - DictGet(STATUS_WEIGHT, lower(task.status), 1),
       lower(task.title) >>

\* TaskItem.sort_key
sort_key(task) ==
    << 0 - DictGet(PRIORITY_WEIGHT, lower(task.priority), 1),
       0 - DictGet(STATUS_WEIGHT, lower(task.status), 1),
       lower(task.title) >>

\* The ordering of the key tuples without their third component.
KeyLess_without_title(a, b) ==
    \/ a[1] < b[1]
    \/ a[1] = b[1] /\ a[2] < b[2]

\* Python's ordering of the (int, int, str) key tuples.
KeyLess(a, b) ==
    \/ a[1] < b[1]
    \/ a[1] = b[1] /\ a[2] < b[2]
    \/ a[1] = b[1] /\ a[2] = b[2] /\ StrRank(a[3]) < StrRank(b[3])

\* Insert x before the elements that do not come before it (not stable).
InsertSorted_before_equal(sortedSeq, x) ==
    LET Before(y) == KeyLess(sort_key(y), sort_key(x))
        NotBefore(y) == ~KeyLess(sort_key(y), sort_key(x))
    IN  SelectSeq(sortedSeq, Before) \o <<x>> \o SelectSeq(sortedSeq, NotBefore)

\* Insert x after every element that does not come after it (stable).
RECURSIVE InsertSorted(_, _)
InsertSorted(sortedSeq, x) ==
    IF Len(sortedSeq) = 0 THEN <<x>>
    ELSE IF KeyLess(sort_key(x), sort_key(Head(sortedSeq)))
    THEN <<x>> \o sortedSeq
    ELSE <<Head(sortedSeq)>> \o InsertSorted(Tail(sortedSeq), x)

\* sorted(task_items, key=lambda t: t.sort_key()): a stable sort.
RECURSIVE sorted(_)
sorted(items) ==
    IF Len(items) = 0 THEN <<>>
    ELSE InsertSorted(sorted(SubSeq(items, 1, Len(items) - 1)),
                      items[Len(items)])

get_reasoning(task) ==
    << (IF lower(task.priority) = "high" THEN "high priority"
        ELSE IF lower(task.priority) = "medium" THEN "medium priority"
        ELSE "low priority"),
       (IF lower(task.status) = "in_progress" THEN "already in progress"
        ELSE IF lower(task.status) = "todo" THEN "ready to start"
        ELSE "completed") >>

STATUS_ICON == << <<"in_progress", "[IN PROGRESS]">>,
                  <<"todo", "[TODO]">>,
                  <<"done", "[DONE]">> >>

PRIORITY_ICON == << <<"high", "(!)">>, <<"medium", "(-)">>, <<"low", "(.)">> >>

\* sum(1 for t in items if t.status.lower() == status)
CountStatus(items, status) ==
    Cardinality({i \in DOMAIN items : lower(items[i].status) = status})

prioritize_tasks(tasks, now) ==
    IF Len(tasks) = 0
    THEN Return(Line(<<"No tasks to prioritize.">>))
    ELSE
    LET task_items == [i \in DOMAIN tasks |-> PrioritizerTaskItem(tasks[i])]
        sorted_tasks == sorted(task_items)
        Entry(i) ==
            LET task == sorted_tasks[i]
            IN  << <<ToString(i), ". ",
                     DictGet(PRIORITY_ICON, lower(task.priority), "(-)"),
                     " **", task.title, "** ",
                     DictGet(STATUS_ICON, lower(task.status), "[TODO]")>>,
                   <<"   _Reason: ">> \o Join(", ", get_reasoning(task))
                       \o <<"_">>,
                   <<>> >>
    IN  Return(JoinLines(
          << Line(<<"# Task Priority List">>),
             EmptyText,
             Line(<<"**Generated:** ", get_current_timestamp(now)>>),
             Line(<<"**Total Tasks:** ", ToString(Len(sorted_tasks))>>),
             EmptyText,
             Line(<<"---">>),
             EmptyText,
             Line(<<"## Prioritized Order">>),
             EmptyText >>
          \o [i \in DOMAIN sorted_tasks |-> Entry(i)]
          \o << Line(<<"---">>),
                EmptyText,
                Line(<<"## Summary">>),
                Line(<<"- In Progress: ",
                       ToString(CountStatus(sorted_tasks, "in_progress"))>>),
                Line(<<"- To Do: ",
                       ToString(CountStatus(sorted_tasks, "todo"))>>),
                Line(<<"- Completed: ",
                       ToString(CountStatus(sorted_tasks, "done"))>>),
                EmptyText,
                Line(<<"**Focus:** Start with task #1 and work down the list.">>)
             >>))

\* task_prioritizer.generate_from_dict(data)
prioritizer_generate_from_dict(data, now) ==
    prioritize_tasks(Get(data, "tasks", <<>>), now)

(***************************************************************************)
(* app/skills/daily_status_summary.py                                      *)
(***************************************************************************)
\* date.today().strftime("%Y-%m-%d"): the day of the clock reading.
get_today(now) == "day-of-" \o ToString(now)

\* The TaskItem of a summary built without the blocked flag of the task.
SummaryTaskItem_without_blocked(t) ==
    [title |-> Get(t, "title", "Untitled"),
     status |-> Get(t, "status", "todo"),
     priority |-> Get(t, "priority", "medium"),
     description |-> Get(t, "description", None),
     blocked |-> FALSE,
     blocker_reason |-> Get(t, "blocker_reason", None)]

SummaryTaskItem(t) ==
    [title |-> Get(t, "title", "Untitled"),
     status |-> Get(t, "status", "todo"),
     priority |-> Get(t, "priority", "medium"),
     description |-> Get(t, "description", None),
     blocked |-> Get(t, "blocked", FALSE),
     blocker_reason |-> Get(t, "blocker_reason", None)]

\* items[:n] taking one item more.
Take_one_more(items, n) ==
    SubSeq(items, 1, IF Len(items) < n + 1 THEN Len(items) ELSE n + 1)

\* items[:n]
Take(items, n) == SubSeq(items, 1, IF Len(items) < n THEN Len(items) ELSE n)

\* f"- {task.title} {priority_tag}".strip(): the tag is "[HIGH]" for a high
\* priority task and empty otherwise, and strip() drops the trailing blank.
TaggedLine(task) ==
    IF lower(task.priority) = "high"
    THEN <<"- ", task.title, " ", "[" \o upper(task.priority) \o "]">>
    ELSE <<"- ", task.title>>

\* generate_daily_summary leaving the Blocked section empty without blockers.
generate_daily_summary_without_placeholder(tasks, summary_date_arg, team_name, now) ==
    LET summary_date ==
            IF summary_date_arg = None THEN get_today(now)
            ELSE summary_date_arg
        task_items == [i \in DOMAIN tasks |-> SummaryTaskItem(tasks[i])]
        IsDone(t) == lower(t.status) = "done"
        IsInProgress(t) == lower(t.status) = "in_progress"
        IsBlocked(t) == t.blocked
        IsTodo(t) == lower(t.status) = "todo" /\ ~t.blocked
        IsHigh(t) == lower(t.priority) = "high"
        completed == SelectSeq(task_items, IsDone)
        in_progress == SelectSeq(task_items, IsInProgress)
        blocked == SelectSeq(task_items, IsBlocked)
        todo == SelectSeq(task_items, IsTodo)
        high_priority_todo == SelectSeq(todo, IsHigh)
        next_up == IF Len(high_priority_todo) > 0
                   THEN Take(high_priority_todo, 3) ELSE Take(todo, 3)
    IN  Return(JoinLines(
          << Line(<<"# Daily Status Summary - ", team_name>>),
             EmptyText,
             Line(<<"**Date:** ", summary_date>>),
             Line(<<"**Generated:** ", get_current_timestamp(now)>>),
             EmptyText,
             Line(<<"---">>),
             EmptyText,
             Line(<<"## Completed">>) >>
          \o (IF Len(completed) > 0
              THEN [i \in DOMAIN completed |->
                      Line(<<"- ", completed[i].title>>)]
              ELSE << Line(<<"- _No tasks completed_">>) >>)
          \o << EmptyText, Line(<<"## In Progress">>) >>
          \o (IF Len(in_progress) > 0
              THEN [i \in DOMAIN in_progress |->
                      Line(TaggedLine(in_progress[i]))]
              ELSE << Line(<<"- _No tasks in progress_">>) >>)
          \o << EmptyText, Line(<<"## Blocked">>) >>
          \o (IF Len(blocked) > 0
              THEN [i \in DOMAIN blocked |->
                      Line(<<"- ", blocked[i].title>>
                           \o (IF Truthy(blocked[i].blocker_reason)
                               THEN <<" - ", blocked[i].blocker_reason>>
                               ELSE <<>>))]
              ELSE <<>>)
          \o << EmptyText, Line(<<"## Next Up">>) >>
          \o (IF Len(next_up) > 0
              THEN [i \in DOMAIN next_up |-> Line(TaggedLine(next_up[i]))]
              ELSE << Line(<<"- _No pending tasks_">>) >>)
          \o << EmptyText,
                Line(<<"---">>),
                EmptyText,
                Line(<<"## Quick Stats">>),
                Line(<<"| Status | Count |">>),
                Line(<<"|--------|-------|">>),
                Line(<<"| Completed | ", ToString(Len(completed)), " |">>),
                Line(<<"| In Progress | ", ToString(Len(in_progress)), " |">>),
                Line(<<"| Blocked | ", ToString(Len(blocked)), " |">>),
                Line(<<"| To Do | ", ToString(Len(todo)), " |">>),
                Line(<<"| **Total** | **", ToString(Len(task_items)),
                       "** |">>) >>))

generate_daily_summary(tasks, summary_date_arg, team_name, now) ==
    LET summary_date ==
            IF summary_date_arg = None THEN get_today(now)
            ELSE summary_date_arg
        task_items == [i \in DOMAIN tasks |-> SummaryTaskItem(tasks[i])]
        IsDone(t) == lower(t.status) = "done"
        IsInProgress(t) == lower(t.status) = "in_progress"
        IsBlocked(t) == t.blocked
        IsTodo(t) == lower(t.status) = "todo" /\ ~t.blocked
        IsHigh(t) == lower(t.priority) = "high"
        completed == SelectSeq(task_items, IsDone)
        in_progress == SelectSeq(task_items, IsInProgress)
        blocked == SelectSeq(task_items, IsBlocked)
        todo == SelectSeq(task_items, IsTodo)
        high_priority_todo == SelectSeq(todo, IsHigh)
        next_up == IF Len(high_priority_todo) > 0
                   THEN Take(high_priority_todo, 3) ELSE Take(todo, 3)
    IN  Return(JoinLines(
          << Line(<<"# Daily Status Summary - ", team_name>>),
             EmptyText,
             Line(<<"**Date:** ", summary_date>>),
             Line(<<"**Generated:** ", get_current_timestamp(now)>>),
             EmptyText,
             Line(<<"---">>),
             EmptyText,
             Line(<<"## Completed">>) >>
          \o (IF Len(completed) > 0
              THEN [i \in DOMAIN completed |->
                      Line(<<"- ", completed[i].title>>)]
              ELSE << Line(<<"- _No tasks completed_">>) >>)
          \o << EmptyText, Line(<<"## In Progress">>) >>
          \o (IF Len(in_progress) > 0
              THEN [i \in DOMAIN in_progress |->
                      Line(TaggedLine(in_progress[i]))]
              ELSE << Line(<<"- _No tasks in progress_">>) >>)
          \o << EmptyText, Line(<<"## Blocked">>) >>
          \o (IF Len(blocked) > 0
              THEN [i \in DOMAIN blocked |->
                      Line(<<"- ", blocked[i].title>>
                           \o (IF Truthy(blocked[i].blocker_reason)
                               THEN <<" - ", blocked[i].blocker_reason>>
                               ELSE <<>>))]
              ELSE << Line(<<"- _No blockers_">>) >>)
          \o << EmptyText, Line(<<"## Next Up">>) >>
          \o (IF Len(next_up) > 0
              THEN [i \in DOMAIN next_up |-> Line(TaggedLine(next_up[i]))]
              ELSE << Line(<<"- _No pending tasks_">>) >>)
          \o << EmptyText,
                Line(<<"---">>),
                EmptyText,
                Line(<<"## Quick Stats">>),
                Line(<<"| Status | Count |">>),
                Line(<<"|--------|-------|">>),
                Line(<<"| Completed | ", ToString(Len(completed)), " |">>),
                Line(<<"| In Progress | ", ToString(Len(in_progress)), " |">>),
                Line(<<"| Blocked | ", ToString(Len(blocked)), " |">>),
                Line(<<"| To Do | ", ToString(Len(todo)), " |">>),
                Line(<<"| **Total** | **", ToString(Len(task_items)),
                       "** |">>) >>))

\* daily_status_summary.generate_from_dict(data)
daily_generate_from_dict(data, now) ==
    generate_daily_summary(Get(data, "tasks", <<>>),
                           Get(data, "date", None),
                           Get(data, "team_name", "Network Operations"),
                           now)

(***************************************************************************)
(* app/models/task.py: SkillType, and the values a caller can pass as      *)
(* skill_type.  A value is described by its class, its member name and     *)
(* its str content; only members of an Enum have the attribute .value.     *)
(***************************************************************************)
EnumMember(cls, name, value) == [cls |-> cls, name |-> name, value |-> value]

PlainStr(s) == [cls |-> "str", name |-> s, value |-> s]

SkillType_INCIDENT == EnumMember("SkillType", "INCIDENT", "incident")

SkillType_RUNBOOK == EnumMember("SkillType", "RUNBOOK", "runbook")

SkillType_FCR == EnumMember("SkillType", "FCR", "fcr")

SkillType_DAILY_SUMMARY ==
    EnumMember("SkillType", "DAILY_SUMMARY", "daily_summary")

SkillType_PRIORITIZER == EnumMember("SkillType", "PRIORITIZER", "prioritizer")

SkillType ==
    {SkillType_INCIDENT, SkillType_RUNBOOK, SkillType_FCR,
     SkillType_DAILY_SUMMARY, SkillType_PRIORITIZER}

\* `a == b` for values of str-based classes: str.__eq__ on the contents.
StrEq(a, b) == a.value = b.value

\* f"{skill_type}"
format_kind(k) ==
    IF k.cls = "str" THEN k.value ELSE k.cls \o "." \o k.name

(***************************************************************************)
(* app/services/skill_service.py                                           *)
(***************************************************************************)
\* The branches of execute_skill: the generator's call with the fields
\* extracted from input_payload.
call_incident(input_payload, now) ==
    generate_incident_update(
        Get(input_payload, "incident_title", ""),
        Get(input_payload, "impact_summary", ""),
        Get(input_payload, "audience", "manager"),
        Get(input_payload, "severity", "P2"),
        Get(input_payload, "current_status", "investigating"),
        Get(input_payload, "next_update_time", None),
        Get(input_payload, "checks_done", <<>>),
        Get(input_payload, "evidence", <<>>),
        now)

call_runbook(input_payload, now) ==
    generate_runbook(
        Get(input_payload, "domain", "firewall"),
        Get(input_payload, "symptom_category", "high_cpu"),
        Get(input_payload, "access_mode", "gui_only"),
        Get(input_payload, "environment", "prod"),
        now)

call_fcr(input_payload, now) ==
    generate_fcr_content(
        Get(input_payload, "purpose", ""),
        Get(input_payload, "change_type", "firewall_rule"),
        Get(input_payload, "rule_count", "single"),
        Get(input_payload, "direction", "inbound"),
        Get(input_payload, "risk_level", "low"),
        Get(input_payload, "environment", "prod"),
        now)

\* The prioritizer branch reading input_payload["tasks"] without a default.
call_prioritizer_subscript(input_payload, now) ==
    IF "tasks" \in DOMAIN input_payload
    THEN prioritize_tasks(input_payload.tasks, now)
    ELSE Raise("KeyError", <<"'tasks'">>)

call_prioritizer(input_payload, now) ==
    prioritize_tasks(Get(input_payload, "tasks", <<>>), now)

call_daily_summary(input_payload, now) ==
    generate_daily_summary(
        Get(input_payload, "tasks", <<>>),
        Get(input_payload, "date", None),
        Get(input_payload, "team_name", "Network Operations"),
        now)

\* The `else` branch: f"Unknown skill type: {skill_type}"
unknown_skill_output(skill_type) ==
    Return(Line(<<"Unknown skill type: ", format_kind(skill_type)>>))

\* The if/elif chain with the generators of the two task-list skills
\* exchanged.
execute_skill_output_exchanged(skill_type, input_payload, now) ==
    IF StrEq(skill_type, SkillType_INCIDENT)
    THEN call_incident(input_payload, now)
    ELSE IF StrEq(skill_type, SkillType_RUNBOOK)
    THEN call_runbook(input_payload, now)
    ELSE IF StrEq(skill_type, SkillType_FCR)
    THEN call_fcr(input_payload, now)
    ELSE IF StrEq(skill_type, SkillType_PRIORITIZER)
    THEN call_daily_summary(input_payload, now)
    ELSE IF StrEq(skill_type, SkillType_DAILY_SUMMARY)
    THEN call_prioritizer(input_payload, now)
    ELSE unknown_skill_output(skill_type)

\* The if/elif chain of execute_skill: what `output` is bound to, or the
\* error the selected generator raises.
execute_skill_output(skill_type, input_payload, now) ==
    IF StrEq(skill_type, SkillType_INCIDENT)
    THEN call_incident(input_payload, now)
    ELSE IF StrEq(skill_type, SkillType_RUNBOOK)
    THEN call_runbook(input_payload, now)
    ELSE IF StrEq(skill_type, SkillType_FCR)
    THEN call_fcr(input_payload, now)
    ELSE IF StrEq(skill_type, SkillType_PRIORITIZER)
    THEN call_prioritizer(input_payload, now)
    ELSE IF StrEq(skill_type, SkillType_DAILY_SUMMARY)
    THEN call_daily_summary(input_payload, now)
    ELSE unknown_skill_output(skill_type)

\* execute_skill reporting a generator's failure as the output text.
execute_skill_catching(skill_type, input_payload, now) ==
    LET output == execute_skill_output(skill_type, input_payload, now)
    IN  IF skill_type.cls = "str"
        THEN Raise("AttributeError",
                   <<"'str' object has no attribute 'value'">>)
        ELSE Return([skill_type |-> skill_type.value,
                     output |-> IF output.raised THEN Line(output.msg)
                                ELSE output.value])

\* execute_skill(skill_type, input_payload): the envelope, or the error
\* raised on the way (by the generator, or by reading skill_type.value).
execute_skill(skill_type, input_payload, now) ==
    LET output == execute_skill_output(skill_type, input_payload, now)
    IN  IF output.raised THEN output
        ELSE IF skill_type.cls = "str"
        THEN Raise("AttributeError",
                   <<"'str' object has no attribute 'value'">>)
        ELSE Return([skill_type |-> skill_type.value,
                     output |-> output.value])

\* The convenience adapter of the generator of a skill kind.
generate_from_dict(skill_type, data, now) ==
    CASE skill_type = SkillType_INCIDENT -> incident_generate_from_dict(data, now)
      [] skill_type = SkillType_RUNBOOK -> runbook_generate_from_dict(data, now)
      [] skill_type = SkillType_FCR -> fcr_generate_from_dict(data, now)
      [] skill_type = SkillType_PRIORITIZER ->
             prioritizer_generate_from_dict(data, now)
      [] skill_type = SkillType_DAILY_SUMMARY ->
             daily_generate_from_dict(data, now)

(***************************************************************************)
(* The callers' inputs.                                                    *)
(***************************************************************************)
Absent == [has |-> FALSE]

Present(v) == [has |-> TRUE, v |-> v]

Optional(values) == {Absent} \cup {Present(v) : v \in values}

\* The map holding the keys of f that are present.
MapOf(f) == [k \in {key \in DOMAIN f : f[key].has} |-> f[k].v]

\* Values passed as skill_type: the members of SkillType, plain strings
\* and a member of another str-based Enum (TaskStatus.TODO).
SkillKinds ==
    SkillType \cup {PlainStr("bogus"), PlainStr("runbook"),
                    EnumMember("TaskStatus", "TODO", "todo")}

RunbookMaps ==
    {MapOf(f) : f \in
       [domain : Optional({"", "firewall", "f5", "invalid"}),
        symptom_category : Optional({" ", "high_cpu", "pool_down", "invalid"}),
        access_mode : Optional({"cli_read_only"}),
        environment : Optional({"uat"})]}

IncidentMaps ==
    {MapOf(f) : f \in
       [incident_title : Optional({"  ", "Core Router Reboot"}),
        impact_summary : Optional({"", "Users in Building A are offline"}),
        audience : Optional({"client"}),
        severity : Optional({"P1", "P9"}),
        current_status : Optional({"resolved", "unknown"}),
        next_update_time : Optional({"15 minutes"}),
        checks_done : Optional({<<"Checked interface counters">>}),
        evidence : Optional({<<"Screenshot of deny logs",
                               "User ticket #12345">>})]}

FcrMaps ==
    {MapOf(f) : f \in
       [purpose : Optional({" ", "Allow HTTPS from vendor"}),
        change_type : Optional({"nat_change", "bogus"}),
        rule_count : Optional({"multiple"}),
        direction : Optional({"outbound"}),
        risk_level : Optional({"high", "bogus"}),
        environment : Optional({"uat"})]}

\* Task records as callers write them (any field may be missing).
TaskRecords ==
    { [title |-> "beta", status |-> "todo", priority |-> "low"],
      [title |-> "alpha", priority |-> "high"],
      [title |-> "Alpha", status |-> "in_progress", priority |-> "medium"],
      [status |-> "done", blocked |-> TRUE,
       blocker_reason |-> "Waiting on vendor"],
      [title |-> "beta", status |-> "paused", priority |-> "urgent"],
      [title |-> "alpha", status |-> "todo", blocked |-> TRUE] }

TaskLists == UNION {[1..n -> TaskRecords] : n \in 0..MaxTasks}

TaskMaps ==
    {MapOf(f) : f \in
       [tasks : Optional(TaskLists),
        date : Optional({"2024-01-15"}),
        team_name : Optional({"Test Team"})]}

InputMaps == RunbookMaps \cup IncidentMaps \cup FcrMaps \cup TaskMaps

\* Arguments of the direct calls of the generators.
RunbookDomains == {None, "", "  ", "firewall", "f5", "circuit", "invalid"}

RunbookSymptoms ==
    {None, "", " ", "high_cpu", "connectivity_loss", "pool_down", "ssl_error",
     "latency", "flapping", "invalid"}

AccessModes == {"gui_only", "cli_read_only"}

Environments == {"prod", "uat"}

RequiredTexts == {None, "", "  ", "Core Router Reboot"}

\* Arguments of a direct call of generate_incident_update: the four
\* severities and two statuses of DEFAULTS, and values outside them.
IncidentSeverities == {"P1", "P2", "P3", "P4", "P9"}

IncidentStatuses == {"investigating", "resolved", "unknown", "Resolved"}

NextUpdateTimes == {None, "", "15 minutes"}

\* A list argument is passed or left out of the call.
CheckLists == Optional({<<>>, <<"Checked interface counters">>})

EvidenceLists ==
    Optional({<<>>, <<"Screenshot of deny logs", "User ticket #12345">>})

\* Arguments of a direct call of generate_fcr_content; every argument after
\* purpose may be left out.
FcrPurposes == {None, "", " ", "Allow HTTPS from vendor"}

FcrChangeTypes == Optional({"firewall_rule", "nat_change", "vpn_config", "bogus"})

FcrRuleCounts == Optional({"multiple"})

FcrDirections == Optional({"outbound"})

FcrRiskLevels == Optional({"medium", "high", "bogus"})

FcrEnvironments == Optional({"uat"})

\* The names of the arguments a call passes.
Supplied(args) == {k \in DOMAIN args : args[k].has}

\* Status and priority of the tasks of a direct call of prioritize_tasks:
\* every status with priority high and every priority with status todo,
\* one of each outside the weight tables ("paused", "urgent").
PrioritizerKinds ==
    {<<"in_progress", "high">>, <<"todo", "high">>, <<"done", "high">>,
     <<"paused", "high">>, <<"todo", "medium">>, <<"todo", "low">>,
     <<"todo", "urgent">>}

\* The tasks: each kind under three titles, two of which differ only in
\* letter case, a task holding only a title and a task holding nothing.
PrioritizerTasks ==
    {[title |-> t, status |-> k[1], priority |-> k[2]] :
        t \in {"alpha", "Alpha", "beta"}, k \in PrioritizerKinds}
    \cup {[title |-> "beta"], MapOf([title |-> Absent])}

PrioritizerLists == UNION {[1..n -> PrioritizerTasks] : n \in 0..MaxTasks}

\* Tasks of a direct call of generate_daily_summary: unblocked todo tasks of
\* high and of other priority, blocked tasks with and without a reason, and
\* a status outside todo, in_progress, done.
SummaryTasks ==
    { [title |-> "alpha", status |-> "todo"],
      [title |-> "beta", status |-> "todo", priority |-> "low"],
      [title |-> "gamma", status |-> "todo", priority |-> "high"],
      [title |-> "delta", status |-> "todo", priority |-> "high"],
      [title |-> "epsilon", status |-> "todo", priority |-> "high",
       blocked |-> TRUE, blocker_reason |-> "Waiting on vendor"],
      [title |-> "zeta", status |-> "done", blocked |-> TRUE],
      [title |-> "eta", status |-> "in_progress", priority |-> "high"],
      [title |-> "theta", status |-> "paused"] }

SummaryLists == UNION {[1..n -> SummaryTasks] : n \in 0..MaxSummaryTasks}

\* The value bound to a parameter: the one passed, or the signature's default.
Bound(arg, default) == IF arg.has THEN arg.v ELSE default

(***************************************************************************)
(* app/models/task.py, app/services/task_service.py, app/routers/tasks.py: *)
(* the task store.                                                         *)
(*                                                                         *)
(* The tasks table is a function from the ids of its rows to the rows.  A  *)
(* row holds id, title, status, priority, created_at and updated_at; the   *)
(* columns description, skill_type, input_payload and output_payload go    *)
(* through the same statements as title and status and are left out.  A    *)
(* request body is a function from the fields it sets to their values      *)
(* (model_dump(exclude_unset=True)).  Every request has a session of its   *)
(* own (get_session), so session.get always reads the table.               *)
(***************************************************************************)
\* The uuid4 values create_task can draw.
TaskIds == {"id1", "id2"}

TaskTitles == {"A", "B"}

\* The id the requests in flight together are sent to.
ContendedIds == {"id1"}

\* The bodies of POST /tasks: title alone, or title and status.
TaskCreates ==
    [title : TaskTitles] \cup {[title |-> "B", status |-> "done"]}

\* The bodies of PUT /tasks/{task_id}: any of title and status, set to a
\* value of the column's type.
TaskUpdates ==
    {task_data \in UNION {[fields -> TaskTitles \cup {"todo", "done"}] :
                             fields \in SUBSET {"title", "status"}} :
        /\ "title" \in DOMAIN task_data => task_data.title \in TaskTitles
        /\ "status" \in DOMAIN task_data
              => task_data.status \in {"todo", "done"}}

EmptyTable == [task_id \in {} |-> None]

\* Task.model_validate(task_data): the defaults of TaskBase and of Task.
Task_model_validate(task_data, task_id, now) ==
    [id |-> task_id,
     title |-> task_data.title,
     status |-> Get(task_data, "status", "todo"),
     priority |-> Get(task_data, "priority", "medium"),
     created_at |-> now,
     updated_at |-> now]

\* session.get(Task, task_id) in a new session: SELECT ... WHERE id = task_id.
session_get(table, task_id) ==
    IF task_id \in DOMAIN table THEN Present(table[task_id]) ELSE Absent

\* session.add(task); session.commit(): INSERT INTO tasks.
flush_insert(table, task) ==
    [task_id \in DOMAIN table \cup {task.id} |->
        IF task_id = task.id THEN task ELSE table[task_id]]

\* model_dump() without exclude_unset: the fields the body omits are None.
setattrs_unset_too(task, update_data, now) ==
    [field \in DOMAIN task |->
        IF field \in {"title", "status", "priority"}
        THEN Get(update_data, field, None)
        ELSE IF field = "updated_at" THEN now
        ELSE task[field]]

\* for key, value in update_data.items(): setattr(task, key, value), then
\* task.updated_at = datetime.now(timezone.utc).
setattrs(task, update_data, now) ==
    [field \in DOMAIN task |->
        IF field \in DOMAIN update_data THEN update_data[field]
        ELSE IF field = "updated_at" THEN now
        ELSE task[field]]

\* session.commit() of a loaded object whose attributes were set: the unit of
\* work emits UPDATE tasks SET c = v, ... WHERE id = task.id for the columns
\* whose value differs from the one the session loaded, updated_at always
\* among them (a new reading of the clock to the microsecond), the other
\* columns of the row stay as the table has them.  No row matched is
\* StaleDataError.
flush_update(table, loaded, task) ==
    IF task.id \notin DOMAIN table
    THEN Raise("StaleDataError", <<"UPDATE statement on table 'tasks' expected to update 1 row(s); 0 were matched.">>)
    ELSE Return([table EXCEPT ![task.id] =
                    [field \in DOMAIN @ |->
                        IF field = "updated_at" \/ task[field] # loaded[field]
                        THEN task[field]
                        ELSE @[field]]])

\* DELETE FROM tasks, the WHERE clause left out.
flush_delete_every_row(table, task) == EmptyTable

\* session.delete(task); session.commit(): DELETE FROM tasks WHERE id =
\* task.id.  No row matched is a warning only.
flush_delete(table, task) ==
    [task_id \in DOMAIN table \ {task.id} |-> table[task_id]]

\* create_task: the service returns the refreshed row.
create_task(table, task_data, task_id, now) ==
    LET task == Task_model_validate(task_data, task_id, now)
        stored == flush_insert(table, task)
    IN  [table |-> stored, outcome |-> Return(Present(stored[task_id]))]

\* get_task.
get_task(table, task_id) == Return(session_get(table, task_id))

\* get_tasks: SELECT ... ORDER BY created_at DESC.  The rows come in any
\* order the clause allows; rows of equal created_at in either order.
get_tasks(table) ==
    {order \in [1..Cardinality(DOMAIN table) -> DOMAIN table] :
        /\ \A i, j \in DOMAIN order : i # j => order[i] # order[j]
        /\ \A i, j \in DOMAIN order :
              i < j => table[order[i]].created_at >= table[order[j]].created_at}

\* update_task from line 40 on, the task loaded: set the attributes, commit,
\* refresh.
update_task_commit(table, loaded, task_data, now) ==
    LET task == setattrs(loaded, task_data, now)
        flushed == flush_update(table, loaded, task)
    IN  IF flushed.raised
        THEN [table |-> table, outcome |-> flushed]
        ELSE [table |-> flushed.value,
              outcome |-> Return(Present(flushed.value[task.id]))]

\* update_task run with no other request between its statements.
update_task(table, task_id, task_data, now) ==
    LET task == session_get(table, task_id)
    IN  IF ~task.has
        THEN [table |-> table, outcome |-> Return(Absent)]
        ELSE update_task_commit(table, task.v, task_data, now)

\* delete_task from line 56 on, the task loaded.
delete_task_commit(table, loaded) ==
    [table |-> flush_delete(table, loaded), outcome |-> Return(TRUE)]

\* delete_task run with no other request between its statements.
delete_task(table, task_id) ==
    LET task == session_get(table, task_id)
    IN  IF ~task.has
        THEN [table |-> table, outcome |-> Return(FALSE)]
        ELSE delete_task_commit(table, task.v)

\* routers/tasks.py: the status code of a response.  An exception that is
\* not an HTTPException is answered with 500.
post_status(outcome) == 201

\* get_task of the router without its 404.
get_status_without_404(outcome) == IF outcome.raised THEN 500 ELSE 200

get_status(outcome) ==
    IF outcome.raised THEN 500
    ELSE IF ~outcome.value.has THEN 404
    ELSE 200

delete_status(outcome) ==
    IF outcome.raised THEN 500
    ELSE IF ~outcome.value THEN 404
    ELSE 204

\* A request in flight: nothing, or the request and the row it loaded.
NoSession == [op |-> "none"]

NoResponse == [op |-> "none"]

Workers == {"w1", "w2"}

(***************************************************************************)
(* The state machine: one invocation at a time is observed.  `call` is the *)
(* invocation in hand (entry point, arguments, clock reading), `ret` what  *)
(* it returned or raised, `adapter_ret` the outcome of the generator's     *)
(* generate_from_dict on the same input map.                               *)
(***************************************************************************)
Idle == [fn |-> "idle"]

NotCalled == [called |-> FALSE]

Init ==
    /\ clock = 0
    /\ call = Idle
    /\ ret = NotCalled
    /\ adapter_ret = NotCalled
    /\ db = EmptyTable
    /\ issued = {}
    /\ removed = {}
    /\ sessions = [w \in Workers |-> NoSession]
    /\ resp = NoResponse

\* The wall clock advances.
Tick ==
    /\ clock < MaxClock
    /\ clock' = clock + 1
    /\ UNCHANGED <<call, ret, adapter_ret, store_vars>>

\* execute_skill taking the tasks out of the caller's map
\* (input_payload.pop("tasks", [])) where the source reads them with get.
ExecuteSkill_popping_tasks ==
    /\ call = Idle
    /\ \E skill_type \in SkillKinds, input_payload \in InputMaps :
          /\ call' = [fn |-> "execute_skill", skill_type |-> skill_type,
                      input_payload |->
                          [key \in DOMAIN input_payload \ {"tasks"} |->
                              input_payload[key]],
                      ts |-> clock]
          /\ ret' = execute_skill(skill_type, input_payload, clock)
    /\ adapter_ret' = NotCalled
    /\ UNCHANGED <<clock, store_vars>>

\* A caller invokes execute_skill(skill_type, input_payload).  No statement
\* of the dispatcher or of a generator assigns to the map, to a static table
\* or to an object reached through them: `call` keeps the map as the
\* invocation leaves it.
ExecuteSkill ==
    /\ call = Idle
    /\ \E skill_type \in SkillKinds, input_payload \in InputMaps :
          /\ call' = [fn |-> "execute_skill", skill_type |-> skill_type,
                      input_payload |-> input_payload, ts |-> clock]
          /\ ret' = execute_skill(skill_type, input_payload, clock)
    /\ adapter_ret' = NotCalled
    /\ UNCHANGED <<clock, store_vars>>

\* The input map of the invocation in hand is given to the convenience
\* adapter of the generator of its kind.
GenerateFromDict ==
    /\ call.fn = "execute_skill"
    /\ call.skill_type \in SkillType
    /\ adapter_ret = NotCalled
    /\ adapter_ret' = [called |-> TRUE, ts |-> clock,
                       ret |-> generate_from_dict(call.skill_type,
                                                  call.input_payload, clock)]
    /\ UNCHANGED <<clock, call, ret, store_vars>>

\* A caller invokes generate_runbook directly.
GenerateRunbook ==
    /\ call = Idle
    /\ \E domain \in RunbookDomains, symptom_category \in RunbookSymptoms,
          access_mode \in AccessModes, environment \in Environments :
          /\ call' = [fn |-> "generate_runbook", domain |-> domain,
                      symptom_category |-> symptom_category,
                      access_mode |-> access_mode,
                      environment |-> environment, ts |-> clock]
          /\ ret' = generate_runbook(domain, symptom_category, access_mode,
                                     environment, clock)
    /\ adapter_ret' = NotCalled
    /\ UNCHANGED <<clock, store_vars>>

\* A caller invokes generate_incident_update directly with every argument of
\* its signature; None is an optional argument left at its default.
GenerateIncidentUpdate ==
    /\ call = Idle
    /\ \E incident_title \in RequiredTexts, impact_summary \in RequiredTexts,
          audience \in {"manager", "client"},
          severity \in IncidentSeverities,
          current_status \in IncidentStatuses,
          next_update_time \in NextUpdateTimes,
          checks_arg \in CheckLists, evidence_arg \in EvidenceLists :
          LET checks_done == Bound(checks_arg, None)
              evidence == Bound(evidence_arg, None)
          IN
          /\ call' = [fn |-> "generate_incident_update",
                      incident_title |-> incident_title,
                      impact_summary |-> impact_summary,
                      audience |-> audience, severity |-> severity,
                      current_status |-> current_status,
                      next_update_time |-> next_update_time,
                      checks_done |-> checks_done, evidence |-> evidence,
                      ts |-> clock]
          /\ ret' = generate_incident_update(incident_title, impact_summary,
                                             audience, severity,
                                             current_status, next_update_time,
                                             checks_done, evidence, clock)
    /\ adapter_ret' = NotCalled
    /\ UNCHANGED <<clock, store_vars>>

\* A caller invokes generate_fcr_content directly; each argument after
\* purpose is passed or left to the default of the signature.
GenerateFcrContent ==
    /\ call = Idle
    /\ \E purpose \in FcrPurposes, change_type \in FcrChangeTypes,
          rule_count \in FcrRuleCounts, direction \in FcrDirections,
          risk_level \in FcrRiskLevels, environment \in FcrEnvironments :
          /\ call' = [fn |-> "generate_fcr_content",
                      purpose |-> purpose,
                      supplied |->
                          Supplied([change_type |-> change_type,
                                    rule_count |-> rule_count,
                                    direction |-> direction,
                                    risk_level |-> risk_level,
                                    environment |-> environment]),
                      change_type |-> Bound(change_type, "firewall_rule"),
                      rule_count |-> Bound(rule_count, "single"),
                      direction |-> Bound(direction, "inbound"),
                      risk_level |-> Bound(risk_level, "low"),
                      environment |-> Bound(environment, "prod"),
                      ts |-> clock]
          /\ ret' = generate_fcr_content(purpose,
                                         Bound(change_type, "firewall_rule"),
                                         Bound(rule_count, "single"),
                                         Bound(direction, "inbound"),
                                         Bound(risk_level, "low"),
                                         Bound(environment, "prod"), clock)
    /\ adapter_ret' = NotCalled
    /\ UNCHANGED <<clock, store_vars>>

\* A caller invokes prioritize_tasks(tasks) directly.
PrioritizeTasks ==
    /\ call = Idle
    /\ \E tasks \in PrioritizerLists :
          /\ call' = [fn |-> "prioritize_tasks", tasks |-> tasks,
                      again |-> FALSE, ts |-> clock]
          /\ ret' = prioritize_tasks(tasks, clock)
    /\ adapter_ret' = NotCalled
    /\ UNCHANGED <<clock, store_vars>>

\* The caller feeds the tasks back in the order of the rendered list, the
\* order of sorted_tasks; the call record keeps the first rendering.
PrioritizeAgain ==
    /\ call # Idle
    /\ call.fn = "prioritize_tasks"
    /\ ~call.again
    /\ Len(call.tasks) > 0
    /\ LET rendered ==
               sorted([i \in DOMAIN call.tasks |->
                          PrioritizerTaskItem(call.tasks[i])])
       IN  /\ call' = [fn |-> "prioritize_tasks", tasks |-> rendered,
                       again |-> TRUE, first |-> ret.value, ts |-> clock]
           /\ ret' = prioritize_tasks(rendered, clock)
    /\ adapter_ret' = NotCalled
    /\ UNCHANGED <<clock, store_vars>>

\* A caller invokes generate_daily_summary(tasks) directly, the date and the
\* team name left to their defaults.
GenerateDailySummary ==
    /\ call = Idle
    /\ \E tasks \in SummaryLists :
          /\ call' = [fn |-> "generate_daily_summary", tasks |-> tasks,
                      ts |-> clock]
          /\ ret' = generate_daily_summary(tasks, None, "Network Operations",
                                           clock)
    /\ adapter_ret' = NotCalled
    /\ UNCHANGED <<clock, store_vars>>

\* The caller has taken the outcome; the next invocation can be observed.
Done ==
    /\ call # Idle
    /\ call' = Idle
    /\ ret' = NotCalled
    /\ adapter_ret' = NotCalled
    /\ UNCHANGED <<clock, store_vars>>

Next ==
    \/ Tick
    \/ ExecuteSkill
    \/ GenerateFromDict
    \/ GenerateRunbook
    \/ GenerateIncidentUpdate
    \/ GenerateFcrContent
    \/ PrioritizeTasks
    \/ PrioritizeAgain
    \/ Done

Spec == Init /\ [][Next]_vars

\* Direct calls of generate_daily_summary alone, with longer task lists.
SummaryNext ==
    \/ Tick
    \/ GenerateDailySummary
    \/ Done

SummarySpec == Init /\ [][SummaryNext]_vars

\* Invocations of execute_skill of every kind, one after the other, and the
\* adapter of the generator run on the same map after it.
DispatchNext ==
    \/ Tick
    \/ ExecuteSkill
    \/ GenerateFromDict
    \/ Done

DispatchSpec == Init /\ [][DispatchNext]_vars

(***************************************************************************)
(* The task store, its requests served one after the other: an action is   *)
(* a whole request, from the router to the response.  `resp` is the last   *)
(* response with its request and the table the request found.              *)
(***************************************************************************)
NoneInFlight == \A w \in Workers : sessions[w] = NoSession

\* POST /tasks.
PostTask ==
    /\ \E task_data \in TaskCreates, task_id \in TaskIds \ issued :
          LET created == create_task(db, task_data, task_id, clock)
          IN  /\ db' = created.table
              /\ issued' = issued \cup {task_id}
              /\ resp' = [op |-> "POST", id |-> task_id, body |-> task_data,
                          status |-> post_status(created.outcome),
                          task |-> created.outcome.value, before |-> db,
                          ts |-> clock]
    /\ UNCHANGED <<clock, call, ret, adapter_ret, removed, sessions>>

\* GET /tasks.
ListTasks ==
    /\ NoneInFlight
    /\ \E order \in get_tasks(db) :
          resp' = [op |-> "LIST", status |-> 200,
                   tasks |-> [i \in DOMAIN order |-> db[order[i]]],
                   before |-> db, ts |-> clock]
    /\ UNCHANGED <<clock, call, ret, adapter_ret, db, issued, removed,
                   sessions>>

\* GET /tasks/{task_id}.
GetTask ==
    /\ NoneInFlight
    /\ \E task_id \in TaskIds :
          LET outcome == get_task(db, task_id)
          IN  resp' = [op |-> "GET", id |-> task_id,
                       status |-> get_status(outcome),
                       task |-> outcome.value, before |-> db, ts |-> clock]
    /\ UNCHANGED <<clock, call, ret, adapter_ret, db, issued, removed,
                   sessions>>

\* PUT /tasks/{task_id}.
PutTask ==
    /\ NoneInFlight
    /\ \E task_id \in TaskIds, task_data \in TaskUpdates :
          LET updated == update_task(db, task_id, task_data, clock)
          IN  /\ db' = updated.table
              /\ resp' = [op |-> "PUT", id |-> task_id, body |-> task_data,
                          status |-> get_status(updated.outcome),
                          task |-> updated.outcome.value, before |-> db,
                          ts |-> clock]
    /\ UNCHANGED <<clock, call, ret, adapter_ret, issued, removed, sessions>>

\* DELETE /tasks/{task_id}.
DeleteTask ==
    /\ NoneInFlight
    /\ \E task_id \in TaskIds :
          LET deleted == delete_task(db, task_id)
          IN  /\ db' = deleted.table
              /\ removed' = IF deleted.outcome.value
                            THEN removed \cup {task_id} ELSE removed
              /\ resp' = [op |-> "DELETE", id |-> task_id,
                          status |-> delete_status(deleted.outcome),
                          before |-> db, ts |-> clock]
    /\ UNCHANGED <<clock, call, ret, adapter_ret, issued, sessions>>

StoreNext ==
    \/ Tick
    \/ PostTask
    \/ ListTasks
    \/ GetTask
    \/ PutTask
    \/ DeleteTask

StoreSpec == Init /\ [][StoreNext]_vars

(***************************************************************************)
(* The task store, two requests in flight: an update or a delete gives way *)
(* to the other request at its awaits.  A worker first loads the task      *)
(* (await session.get), later commits (await session.commit, the row       *)
(* locked from the UPDATE or DELETE statement to the end of the            *)
(* transaction) and answers.  A finished request stays in `sessions` until *)
(* the worker closes its session.                                          *)
(***************************************************************************)
\* update_task, lines 36-38, and the 404 of the router.
UpdateRead ==
    /\ \E w \in Workers, task_id \in ContendedIds,
          task_data \in TaskUpdates :
          /\ sessions[w] = NoSession
          /\ LET task == session_get(db, task_id)
             IN  sessions' =
                     [sessions EXCEPT ![w] =
                         [op |-> "PUT", id |-> task_id, body |-> task_data,
                          loaded |-> task,
                          pc |-> IF task.has THEN "loaded" ELSE "done",
                          status |-> IF task.has THEN 0
                                     ELSE get_status(Return(Absent))]]
    /\ UNCHANGED <<clock, call, ret, adapter_ret, db, issued, removed, resp>>

\* update_task, lines 40-47, and the response of the router.
UpdateCommit ==
    /\ \E w \in Workers :
          /\ sessions[w].op = "PUT"
          /\ sessions[w].pc = "loaded"
          /\ LET updated == update_task_commit(db, sessions[w].loaded.v,
                                               sessions[w].body, clock)
             IN  /\ db' = updated.table
                 /\ sessions' =
                        [sessions EXCEPT ![w].pc = "done",
                                         ![w].status =
                                             get_status(updated.outcome)]
    /\ UNCHANGED <<clock, call, ret, adapter_ret, issued, removed, resp>>

\* delete_task, lines 52-54, and the 404 of the router.
DeleteRead ==
    /\ \E w \in Workers, task_id \in ContendedIds :
          /\ sessions[w] = NoSession
          /\ LET task == session_get(db, task_id)
             IN  sessions' =
                     [sessions EXCEPT ![w] =
                         [op |-> "DELETE", id |-> task_id, loaded |-> task,
                          pc |-> IF task.has THEN "loaded" ELSE "done",
                          status |-> IF task.has THEN 0
                                     ELSE delete_status(Return(FALSE))]]
    /\ UNCHANGED <<clock, call, ret, adapter_ret, db, issued, removed, resp>>

\* delete_task, lines 56-58, and the response of the router.
DeleteCommit ==
    /\ \E w \in Workers :
          /\ sessions[w].op = "DELETE"
          /\ sessions[w].pc = "loaded"
          /\ LET deleted == delete_task_commit(db, sessions[w].loaded.v)
             IN  /\ db' = deleted.table
                 /\ removed' = removed \cup {sessions[w].id}
                 /\ sessions' =
                        [sessions EXCEPT ![w].pc = "done",
                                         ![w].status =
                                             delete_status(deleted.outcome)]
    /\ UNCHANGED <<clock, call, ret, adapter_ret, issued, resp>>

\* get_session: the session of a finished request is closed.
CloseSession ==
    /\ \E w \in Workers :
          /\ sessions[w] # NoSession
          /\ sessions[w].pc = "done"
          /\ sessions' = [sessions EXCEPT ![w] = NoSession]
    /\ UNCHANGED <<clock, call, ret, adapter_ret, db, issued, removed, resp>>

ConcurrentStoreNext ==
    \/ PostTask
    \/ UpdateRead
    \/ UpdateCommit
    \/ DeleteRead
    \/ DeleteCommit
    \/ CloseSession

ConcurrentStoreSpec == Init /\ [][ConcurrentStoreNext]_vars

(***************************************************************************)
(* Properties.                                                             *)
(***************************************************************************)
\* The fragments of a message or of a line.
Frags(m) == {m[i] : i \in DOMAIN m}

\* The text has a line made of exactly these fragments.
HasLine(text, frags) == \E i \in DOMAIN text : text[i] = frags

\* Positions of the lines of the text equal to the given fragments.
LinesAt(text, frags) == {i \in DOMAIN text : text[i] = frags}

ExecuteCalled == call.fn = "execute_skill"

RunbookCalled == call.fn = "generate_runbook"

IncidentCalled == call.fn = "generate_incident_update"

\* The canonical string values of the five skill kinds.
KnownKindValues ==
    {"incident", "runbook", "fcr", "daily_summary", "prioritizer"}

\* A required field counts as blank when absent, empty or whitespace only.
IsBlankValue(v) == v \in {None, "", " ", "  "}

\* C1: execute_skill never raises for a skill kind outside the five known
\* kinds; it returns an envelope whose output is the "Unknown skill type"
\* message.
C1_UnknownKindReturnsMessage ==
    (ExecuteCalled /\ call.skill_type.value \notin KnownKindValues)
        => /\ ~ret.raised
           /\ Len(ret.value.output) = 1
           /\ ret.value.output[1][1] = "Unknown skill type: "

\* The text C2 expects from the generator of a kind for a map, each field
\* taken from the map when present.
C2_GeneratorText(kind, m, now) ==
    CASE kind = "incident" ->
           generate_incident_update(
               m.incident_title, m.impact_summary,
               Get(m, "audience", "manager"), Get(m, "severity", "P2"),
               Get(m, "current_status", "investigating"),
               Get(m, "next_update_time", None),
               Get(m, "checks_done", <<>>), Get(m, "evidence", <<>>), now)
      [] kind = "runbook" ->
           generate_runbook(
               m.domain, m.symptom_category,
               Get(m, "access_mode", "gui_only"),
               Get(m, "environment", "prod"), now)
      [] kind = "fcr" ->
           generate_fcr_content(
               m.purpose, Get(m, "change_type", "firewall_rule"),
               Get(m, "rule_count", "single"), Get(m, "direction", "inbound"),
               Get(m, "risk_level", "low"), Get(m, "environment", "prod"), now)
      [] kind = "prioritizer" ->
           prioritize_tasks(Get(m, "tasks", <<>>), now)
      [] kind = "daily_summary" ->
           generate_daily_summary(
               Get(m, "tasks", <<>>), Get(m, "date", None),
               Get(m, "team_name", "Network Operations"), now)

\* The fields a kind requires.
RequiredFields(kind) ==
    CASE kind = "incident" -> {"incident_title", "impact_summary"}
      [] kind = "runbook" -> {"domain", "symptom_category"}
      [] kind = "fcr" -> {"purpose"}
      [] OTHER -> {}

\* C2: for a recognized kind and a map holding the kind's required fields
\* on which the generator succeeds, execute_skill returns an envelope with
\* exactly the fields skill_type and output; skill_type is the string value
\* of the kind and output the text of that kind's generator.
C2_EnvelopeOfMatchingGenerator ==
    (/\ ExecuteCalled
     /\ call.skill_type \in SkillType
     /\ RequiredFields(call.skill_type.value) \subseteq DOMAIN call.input_payload
     /\ ~C2_GeneratorText(call.skill_type.value, call.input_payload,
                          call.ts).raised)
        => /\ ~ret.raised
           /\ DOMAIN ret.value = {"skill_type", "output"}
           /\ ret.value.skill_type \in KnownKindValues
           /\ ret.value.skill_type = call.skill_type.value
           /\ ret.value.output =
                 C2_GeneratorText(call.skill_type.value, call.input_payload,
                                  call.ts).value

\* A kind dispatched on a task list renders that list with its own
\* generator.
C2_Witness ==
    /\ ExecuteCalled
    /\ call.skill_type = SkillType_DAILY_SUMMARY
    /\ "tasks" \in DOMAIN call.input_payload
    /\ Len(call.input_payload.tasks) = 2
    /\ "team_name" \in DOMAIN call.input_payload
    /\ ~ret.raised
    /\ HasLine(ret.value.output, <<"# Daily Status Summary - ", "Test Team">>)

\* C3: execute_skill on a map lacking a required field of its kind fails
\* with the validation error naming that field.
C3_MissingRequiredFieldFails ==
    \A field \in {"incident_title", "impact_summary", "domain",
                  "symptom_category", "purpose"} :
        (/\ ExecuteCalled
         /\ call.skill_type \in SkillType
         /\ field \in RequiredFields(call.skill_type.value)
         /\ field \notin DOMAIN call.input_payload)
            => /\ ret.raised
               /\ ret.msg[1] = "Invalid input: "
               /\ (field \o " is required") \in Frags(ret.msg)

\* C4: generate_from_dict and execute_skill agree on every kind and map
\* read at the same clock value: both raise the same error, or the
\* adapter's text is the envelope's output.
C4_AdapterEqualsDispatcher ==
    (/\ ExecuteCalled
     /\ call.skill_type \in SkillType
     /\ adapter_ret # NotCalled
     /\ adapter_ret.ts = call.ts)
        => \/ ret.raised /\ adapter_ret.ret = ret
           \/ /\ ~ret.raised
              /\ ~adapter_ret.ret.raised
              /\ adapter_ret.ret.value = ret.value.output

\* C5: when the generator selected by execute_skill fails, execute_skill
\* raises that very error and returns no envelope.
C5_GeneratorFailurePropagates ==
    (/\ ExecuteCalled
     /\ execute_skill_output(call.skill_type, call.input_payload,
                             call.ts).raised)
        => /\ ret.raised
           /\ ret = execute_skill_output(call.skill_type, call.input_payload,
                                         call.ts)
           /\ ret.type = "ValueError"

\* Validation and lookup failures both reach the caller of execute_skill.
C5_Witness ==
    /\ ExecuteCalled
    /\ call.skill_type = SkillType_RUNBOOK
    /\ "domain" \in DOMAIN call.input_payload
    /\ call.input_payload.domain = "invalid"
    /\ ret.raised
    /\ ret.msg[1] = "No playbook found for domain: "

\* The keys of the playbook table and of each domain's symptom table.
PlaybookDomains == {"firewall", "f5", "circuit"}

SymptomsOf(domain) ==
    CASE domain = "firewall" -> {"high_cpu", "connectivity_loss"}
      [] domain = "f5" -> {"pool_down", "ssl_error"}
      [] domain = "circuit" -> {"latency", "flapping"}

\* C6: generate_runbook checks its failures in a fixed order: blank
\* domain or symptom_category first, then an unknown domain, then a symptom
\* the domain does not have; otherwise it succeeds.
C6_RunbookFailurePrecedence ==
    RunbookCalled =>
        IF IsBlankValue(call.domain) \/ IsBlankValue(call.symptom_category)
        THEN ret.raised /\ ret.msg[1] = "Invalid input: "
        ELSE IF call.domain \notin PlaybookDomains
        THEN /\ ret.raised
             /\ ret.msg[1] = "No playbook found for domain: "
             /\ ret.msg[2] = call.domain
        ELSE IF call.symptom_category \notin SymptomsOf(call.domain)
        THEN ret.raised /\ ret.msg[1] = "Unknown symptom '"
        ELSE ~ret.raised

\* A blank symptom_category with an unknown domain is a validation failure.
C6_Witness ==
    /\ RunbookCalled
    /\ call.domain = "invalid"
    /\ call.symptom_category = " "
    /\ ret.raised
    /\ ret.msg = <<"Invalid input: ", "symptom_category is required">>

\* A lookup failure of generate_runbook.
RunbookLookupFailed ==
    /\ RunbookCalled
    /\ ~IsBlankValue(call.domain)
    /\ ~IsBlankValue(call.symptom_category)
    /\ \/ call.domain \notin PlaybookDomains
       \/ call.symptom_category \notin SymptomsOf(call.domain)

\* C7 as stated: the error of a lookup failure is of a kind other than the
\* kind raised for blank required fields.
C7_LookupErrorKindDistinct ==
    RunbookLookupFailed
        => /\ ret.raised
           /\ ret.type # generate_runbook("", "", "gui_only", "prod", 0).type

\* C7 amended: lookup and validation failures of generate_runbook are both
\* ValueError; what tells them apart is the message, which starts with
\* "Invalid input: " exactly for the validation failure.
C7_LookupErrorToldByMessage ==
    (RunbookCalled /\ ret.raised)
        => /\ ret.type = "ValueError"
           /\ RunbookLookupFailed =>
                 ret.msg[1] \in {"No playbook found for domain: ",
                                 "Unknown symptom '"}
           /\ ~RunbookLookupFailed => ret.msg[1] = "Invalid input: "

C7_Witness ==
    /\ RunbookLookupFailed
    /\ call.domain = "invalid"
    /\ ret.raised
    /\ ret.type = "ValueError"

\* The quoted symptom keys of all domains.
AllQuotedSymptoms ==
    {"'" \o k \o "'" : k \in UNION {SymptomsOf(d) : d \in PlaybookDomains}}

\* C8: the lookup failures list the alternatives of their own level: the
\* unknown domain's message names the domain and lists firewall, f5 and
\* circuit; the unknown symptom's message names the symptom and lists the
\* symptom keys of the given domain and of no other.
C8_LookupErrorListsAlternatives ==
    RunbookLookupFailed =>
        IF call.domain \notin PlaybookDomains
        THEN ret.msg = <<"No playbook found for domain: ", call.domain,
                         ". Available: ", "[", "'firewall'", ", ", "'f5'",
                         ", ", "'circuit'", "]">>
        ELSE /\ SubSeq(ret.msg, 1, 6) =
                   <<"Unknown symptom '", call.symptom_category,
                     "' for domain '", call.domain, "'. ", "Available: ">>
             /\ Frags(ret.msg) \cap AllQuotedSymptoms =
                   {"'" \o k \o "'" : k \in SymptomsOf(call.domain)}

C8_Witness ==
    /\ RunbookLookupFailed
    /\ call.domain = "f5"
    /\ call.symptom_category = "high_cpu"
    /\ ret.raised
    /\ "'pool_down'" \in Frags(ret.msg)

\* C9: for every pair of the playbook table generate_runbook succeeds and
\* its text holds the domain name, the diagnostic steps numbered from 1 in
\* their order right after their heading, every evidence item, every stop
\* condition below the STOP heading and the escalation path of the domain.
C9_RunbookRendersPlaybook ==
    (/\ RunbookCalled
     /\ call.domain \in PlaybookDomains
     /\ call.symptom_category \in SymptomsOf(call.domain))
        => /\ ~ret.raised
           /\ LET text == ret.value
                  playbook == DictGet(PLAYBOOKS, call.domain, None)
                  data == DictGet(playbook.symptoms, call.symptom_category,
                                  None)
                  stepsAt == CHOOSE i \in DOMAIN text :
                                 text[i] = <<"## Safe Diagnostic Steps">>
                  stopAt == CHOOSE i \in DOMAIN text :
                      text[i] = <<"## STOP Conditions (Escalate Immediately)">>
              IN  /\ text[1][2] = upper(call.domain)
                  /\ Cardinality(LinesAt(text,
                                         <<"## Safe Diagnostic Steps">>)) = 1
                  /\ Len(data.diagnostic_steps) = 5
                  /\ \A n \in DOMAIN data.diagnostic_steps :
                        text[stepsAt + n] =
                            <<ToString(n), ". ", data.diagnostic_steps[n].step>>
                  /\ \A n \in DOMAIN data.evidence_checklist :
                        HasLine(text, <<"- [ ] ", data.evidence_checklist[n]>>)
                  /\ \A n \in DOMAIN data.stop_conditions :
                        text[stopAt + n] = <<"- ", data.stop_conditions[n]>>
                  /\ text[Len(text)] =
                        <<"**Escalation Path:** ", playbook.escalation_path>>
                  /\ \A d \in PlaybookDomains \ {call.domain} :
                        ~HasLine(text, <<"**Escalation Path:** ",
                                         DictGet(PLAYBOOKS, d,
                                                 None).escalation_path>>)

C9_Witness ==
    /\ RunbookCalled
    /\ call.domain = "circuit"
    /\ call.symptom_category = "flapping"
    /\ call.access_mode = "cli_read_only"
    /\ ~ret.raised
    /\ HasLine(ret.value, <<"1", ". ", "Check interface status history">>)

\* C10: generate_incident_update fails with the validation error whenever
\* incident_title or impact_summary is blank, and the one message lists
\* every blank required field.
C10_IncidentValidationListsAll ==
    (/\ IncidentCalled
     /\ IsBlankValue(call.incident_title) \/ IsBlankValue(call.impact_summary))
        => /\ ret.raised
           /\ ret.type = "ValueError"
           /\ ret.msg[1] = "Invalid input: "
           /\ "incident_title is required" \in Frags(ret.msg)
                 <=> IsBlankValue(call.incident_title)
           /\ "impact_summary is required" \in Frags(ret.msg)
                 <=> IsBlankValue(call.impact_summary)

C10_Witness ==
    /\ IncidentCalled
    /\ call.incident_title = "  "
    /\ call.impact_summary = None
    /\ ret.raised
    /\ ret.msg = <<"Invalid input: ", "incident_title is required", ", ",
                   "impact_summary is required">>

(***************************************************************************)
(* Incident update: the client template                                    *)
(***************************************************************************)
IncidentRendered == IncidentCalled /\ ~ret.raised

\* The positions <<line, fragment>> of a rendered client update that hold
\* the caller's own texts: the title, the impact summary and a supplied
\* next_update_time.
C11_CallerPositions(text) ==
    {<<1, 2>>, <<7, 1>>}
    \cup (IF Truthy(call.next_update_time)
          THEN {<<Len(text) - 2, 2>>} ELSE {})

C11_Positions(text) ==
    {p \in (DOMAIN text) \X (1..3) : p[2] \in DOMAIN text[p[1]]}

\* The fragments the generator itself put at the given positions.
C11_OwnFragments(text, positions) ==
    {text[p[1]][p[2]] : p \in positions \ C11_CallerPositions(text)}

\* A status value as given and as str.title() shows it.
C11_LetterCases(s) == {s, title(s)}

C11_HidesSeverity(text) ==
    LET own == C11_OwnFragments(text, C11_Positions(text))
    IN  /\ call.severity \notin own
        /\ "**Severity:** " \notin own
        /\ \A f \in own : f \notin {"Severity", "severity"}

C11_EndsWithClosing(text) ==
    text[Len(text)] = <<"Thank you for your patience.">>

\* C11 (as stated): a client update shows, in what the generator itself
\* emits, neither the severity code nor the word severity nor the value of
\* current_status, and its last line is the courtesy closing.
C11_ClientHidesSeverityAndStatus ==
    (IncidentRendered /\ call.audience = "client") =>
        /\ C11_HidesSeverity(ret.value)
        /\ C11_OwnFragments(ret.value, C11_Positions(ret.value))
               \cap C11_LetterCases(call.current_status) = {}
        /\ C11_EndsWithClosing(ret.value)

\* C11 (amended): a client update shows neither the severity code nor the
\* word severity and ends with the courtesy closing; the value of
\* current_status is shown title-cased on the Status line, its third line,
\* and nowhere else.
C11_ClientHidesSeverityShowsStatus ==
    (IncidentRendered /\ call.audience = "client") =>
        /\ C11_HidesSeverity(ret.value)
        /\ ret.value[3] = <<"**Status:** ", title(call.current_status)>>
        /\ C11_OwnFragments(ret.value, C11_Positions(ret.value) \ {<<3, 2>>})
               \cap C11_LetterCases(call.current_status) = {}
        /\ C11_EndsWithClosing(ret.value)

C11_Witness ==
    /\ IncidentRendered
    /\ call.audience = "client"
    /\ call.severity = "P1"
    /\ call.current_status = "resolved"
    /\ HasLine(ret.value, <<"**Status:** ", "Resolved">>)
    /\ C11_EndsWithClosing(ret.value)

(***************************************************************************)
(* Incident update: the manager template                                   *)
(***************************************************************************)
\* The section of the text under the heading at line k lists the items, one
\* bullet line each and in their order, and a blank line follows.
ListsUnder(text, k, items) ==
    /\ k + Len(items) + 1 <= Len(text)
    /\ \A i \in DOMAIN items : text[k + i] = <<"- ", items[i]>>
    /\ text[k + Len(items) + 1] = <<>>

\* C12: a manager update has exactly one of the headings 'Evidence
\* Collected' and 'Evidence To Collect': the former, listing the supplied
\* items in order, iff evidence is non-empty, otherwise the latter, listing
\* the static default checklist; the heading 'Diagnostic Checks Completed'
\* is there iff checks_done is non-empty.
C12_ManagerEvidenceAndChecks ==
    (IncidentRendered /\ call.audience = "manager") =>
        LET text == ret.value
            evidence == OrEmptyList(call.evidence)
            checks_done == OrEmptyList(call.checks_done)
            collected == LinesAt(text, <<"## Evidence Collected">>)
            to_collect == LinesAt(text, <<"## Evidence To Collect">>)
            checks == LinesAt(text, <<"## Diagnostic Checks Completed">>)
        IN  /\ Cardinality(collected \cup to_collect) = 1
            /\ (collected # {}) <=> (Len(evidence) > 0)
            /\ \A k \in collected : ListsUnder(text, k, evidence)
            /\ \A k \in to_collect :
                   ListsUnder(text, k,
                              <<"Screenshots of error messages/alerts",
                                "Relevant log entries with timestamps",
                                "Timeline of events">>)
            /\ (checks # {}) <=> (Len(checks_done) > 0)
            /\ \A k \in checks : ListsUnder(text, k, checks_done)

C12_Witness ==
    /\ IncidentRendered
    /\ call.audience = "manager"
    /\ Len(OrEmptyList(call.evidence)) = 2
    /\ Len(OrEmptyList(call.checks_done)) = 1
    /\ HasLine(ret.value, <<"## Evidence Collected">>)
    /\ HasLine(ret.value, <<"- ", "User ticket #12345">>)
    /\ HasLine(ret.value, <<"## Diagnostic Checks Completed">>)

(***************************************************************************)
(* Incident update: fallbacks of severity and current_status               *)
(***************************************************************************)
\* The interval the claim gives for a severity.
C13_Interval(severity) ==
    CASE severity = "P1" -> "30 minutes"
      [] severity = "P2" -> "1 hour"
      [] severity = "P3" -> "2 hours"
      [] severity = "P4" -> "4 hours"
      [] OTHER -> "1 hour"

\* The time an update has to show: the one supplied, or the interval of the
\* severity when none is supplied (None, or the empty string).
C13_ExpectedTime ==
    IF call.next_update_time \in {None, ""}
    THEN C13_Interval(call.severity)
    ELSE call.next_update_time

C13_ShowsTime(text) ==
    IF call.audience = "client"
    THEN text[Len(text) - 2] =
             <<"We will provide another update in ", C13_ExpectedTime, ".">>
    ELSE text[Len(text)] = <<"**Next Update:** ", C13_ExpectedTime>>

C13_OnlyContinueInvestigation(text) ==
    IF call.audience = "client"
    THEN \A k \in LinesAt(text, <<"## What We're Doing">>) :
            /\ text[k + 1] = <<"- ", "Continue investigation">>
            /\ text[k + 2] = <<>>
    ELSE \A k \in LinesAt(text, <<"## Next Steps">>) :
            /\ text[k + 1] = <<"1", ". ", "Continue investigation">>
            /\ text[k + 2] = <<>>

FcrCalled == call.fn = "generate_fcr_content"

\* The lines following line k of the text are the given lines, in order,
\* and a blank line or the end of the text follows.
LinesUnder(text, k, lines) ==
    /\ k + Len(lines) <= Len(text)
    /\ \A i \in DOMAIN lines : text[k + i] = lines[i]
    /\ k + Len(lines) < Len(text) => text[k + Len(lines) + 1] = <<>>

\* The text renders the technical description, the tests and the rollback
\* steps of the firewall_rule change type.
RendersFirewallRule(text, purpose, direction, rule_count) ==
    /\ \A k \in LinesAt(text, <<"## 2. Technical Description">>) :
           text[k + 1] = <<"Add firewall rule to ", direction,
                           " traffic for ", purpose, ". Rule count: ",
                           rule_count, ".">>
    /\ \A k \in LinesAt(text, <<"## 3. Tests Conducted">>) :
           LinesUnder(text, k,
               << <<"- [ ] ", "Verify rule syntax in staging/lab environment">>,
                  <<"- [ ] ", "Confirm source/destination objects exist">>,
                  <<"- [ ] ", "Test connectivity with rule in place (lab)">>,
                  <<"- [ ] ", "Verify logging is enabled for new rule">> >>)
    /\ \A k \in LinesAt(text, <<"## 5. Rollback Procedure">>) :
           LinesUnder(text, k + 2,
               << <<"1", ". ", "Remove newly added rule(s)">>,
                  <<"2", ". ",
                    "Restore previous rule configuration if modified">>,
                  <<"3", ". ",
                    "Verify traffic flow returns to pre-change state">> >>)

\* The text renders the impact statement and the rollback time of low risk.
RendersLowRisk(text) ==
    /\ \A k \in LinesAt(text, <<"## 4. Impact Assessment">>) :
           text[k + 1] = <<"Minimal impact expected. Change affects limited scope with no service disruption.">>
    /\ \A k \in LinesAt(text, <<"## 5. Rollback Procedure">>) :
           text[k + 1] = <<"**Estimated Rollback Time:** ", "< 5 minutes">>

FcrSections(text) ==
    /\ Cardinality(LinesAt(text, <<"## 2. Technical Description">>)) = 1
    /\ Cardinality(LinesAt(text, <<"## 3. Tests Conducted">>)) = 1
    /\ Cardinality(LinesAt(text, <<"## 4. Impact Assessment">>)) = 1
    /\ Cardinality(LinesAt(text, <<"## 5. Rollback Procedure">>)) = 1

\* C14: generate_fcr_content fails, with the validation error that names
\* purpose, iff purpose is empty or whitespace; with a non-blank purpose and
\* no other argument it renders the firewall_rule technical description
\* (direction inbound, rule count single), tests and rollback steps, the
\* low-risk impact statement and rollback time, and environment prod.
C14_PurposeRequiredAndDefaults ==
    FcrCalled =>
        /\ ret.raised <=> IsBlankValue(call.purpose)
        /\ ret.raised =>
               /\ ret.type = "ValueError"
               /\ ret.msg = <<"Invalid input: ", "purpose is required">>
        /\ (~ret.raised /\ call.supplied = {}) =>
               /\ FcrSections(ret.value)
               /\ RendersFirewallRule(ret.value, call.purpose,
                                      "inbound", "single")
               /\ RendersLowRisk(ret.value)
               /\ HasLine(ret.value, <<"**Environment:** ", "PROD">>)
               /\ HasLine(ret.value, <<"- ", "PROD", " ", "Firewall Rule",
                                       " infrastructure">>)

C14_Witness ==
    /\ FcrCalled
    /\ call.purpose = "Allow HTTPS from vendor"
    /\ call.supplied = {}
    /\ ~ret.raised
    /\ HasLine(ret.value, <<"**Estimated Rollback Time:** ", "< 5 minutes">>)
    /\ HasLine(ret.value, <<"**Change Type:** ", "Firewall Rule">>)

\* C15: with a non-blank purpose, a change_type outside the table is no
\* error and renders the firewall_rule technical description, tests and
\* rollback steps; a risk_level outside the table is no error and renders
\* the impact statement and the rollback time of low risk.
C15_UnknownChangeTypeAndRisk ==
    (FcrCalled /\ ~IsBlankValue(call.purpose)) =>
        /\ ~ret.raised
        /\ FcrSections(ret.value)
        /\ call.change_type \notin Frags(DictKeys(TECHNICAL_DESCRIPTIONS)) =>
               RendersFirewallRule(ret.value, call.purpose, call.direction,
                                   call.rule_count)
        /\ call.risk_level \notin {"low", "medium", "high"} =>
               RendersLowRisk(ret.value)

C15_Witness ==
    /\ FcrCalled
    /\ ~ret.raised
    /\ call.change_type = "bogus"
    /\ call.risk_level = "bogus"
    /\ call.direction = "outbound"
    /\ HasLine(ret.value, <<"**Change Type:** ", "Bogus">>)
    /\ HasLine(ret.value, <<"**Estimated Rollback Time:** ", "< 5 minutes">>)

(***************************************************************************)
(* Task prioritizer                                                        *)
(***************************************************************************)
PrioritizeCalled == call.fn = "prioritize_tasks"

\* A direct call with at least one task, which renders a list.
PrioritizedSome == PrioritizeCalled /\ Len(call.tasks) > 0 /\ ~ret.raised

\* The permutations of 1..n.
Perms(n) ==
    {p \in [1..n -> 1..n] : \A i, j \in 1..n : p[i] = p[j] => i = j}

\* The entry line of position i of a rendered list, and its reason line.
EntryLine(text, i) == text[3 * i + 7]

ReasonLine(text, i) == text[3 * i + 8]

\* The number of entries of a rendered list.
EntryCount(text) == (Len(text) - 17) \div 3

\* Weights of the ordering: high=3, medium=2, low=1 and in_progress=3,
\* todo=2, done=1; any other value weighs 1.
C16_PriorityWeight(priority) ==
    CASE priority = "high" -> 3
      [] priority = "medium" -> 2
      [] OTHER -> 1

C16_StatusWeight(status) ==
    CASE status = "in_progress" -> 3
      [] status = "todo" -> 2
      [] OTHER -> 1

\* The task with the defaults of its missing fields.
C16_Item(t) ==
    [title |-> IF "title" \in DOMAIN t THEN t.title ELSE "Untitled",
     status |-> IF "status" \in DOMAIN t THEN t.status ELSE "todo",
     priority |-> IF "priority" \in DOMAIN t THEN t.priority ELSE "medium"]

\* a comes no later than b in the order of (-priority weight, -status
\* weight, lower-cased title).
C16_KeyLeq(a, b) ==
    LET pa == C16_PriorityWeight(lower(a.priority))
        pb == C16_PriorityWeight(lower(b.priority))
        sa == C16_StatusWeight(lower(a.status))
        sb == C16_StatusWeight(lower(b.status))
    IN  \/ pa > pb
        \/ pa = pb /\ sa > sb
        \/ pa = pb /\ sa = sb
              /\ StrRank(lower(a.title)) <= StrRank(lower(b.title))

\* The entry line shows the item: its title and, for a priority and a
\* status of the tables, their glyph and tag.
ShownAs(line, item) ==
    /\ Len(line) = 7
    /\ line[5] = item.title
    /\ item.priority = "high" => line[3] = "(!)"
    /\ item.priority = "medium" => line[3] = "(-)"
    /\ item.priority = "low" => line[3] = "(.)"
    /\ item.status = "in_progress" => line[7] = "[IN PROGRESS]"
    /\ item.status = "todo" => line[7] = "[TODO]"
    /\ item.status = "done" => line[7] = "[DONE]"

\* The ways to read the rendered list as an arrangement of the input tasks:
\* entry i shows task p[i], each task shown once.
RenderedOrders(tasks, text) ==
    {p \in Perms(Len(tasks)) :
        \A i \in 1..Len(tasks) :
            /\ EntryLine(text, i)[1] = ToString(i)
            /\ ShownAs(EntryLine(text, i), C16_Item(tasks[p[i]]))}

\* C16: for a non-empty task sequence the rendered list has as many entries
\* as Total Tasks says, shows each input task exactly once, in
\* non-decreasing order of (-priority weight, -status weight, lower-cased
\* title), and every high-priority task before every low-priority task.
C16_RenderedInKeyOrder ==
    PrioritizedSome =>
        LET text == ret.value
            n == Len(call.tasks)
            item(p, i) == C16_Item(call.tasks[p[i]])
        IN  /\ EntryCount(text) = n
            /\ Len(text) = 3 * n + 17
            /\ text[4] = <<"**Total Tasks:** ", ToString(n)>>
            /\ \E p \in RenderedOrders(call.tasks, text) :
                   /\ \A i, j \in 1..n :
                          i < j => C16_KeyLeq(item(p, i), item(p, j))
                   /\ \A i, j \in 1..n :
                          (item(p, i).priority = "high"
                             /\ item(p, j).priority = "low") => i < j

C16_Witness ==
    /\ PrioritizedSome
    /\ call.tasks =
          << [title |-> "alpha", status |-> "todo", priority |-> "low"],
             [title |-> "beta", status |-> "done", priority |-> "high"] >>
    /\ EntryLine(ret.value, 1) =
          <<"1", ". ", "(!)", " **", "beta", "** ", "[DONE]">>
    /\ EntryLine(ret.value, 2) =
          <<"2", ". ", "(.)", " **", "alpha", "** ", "[TODO]">>

\* The order of C16 with a priority outside the table weighing as medium.
C17_KeyLeq(a, b) ==
    LET Medium(item) ==
            [item EXCEPT !.priority =
                IF @ \in {"high", "medium", "low"} THEN @ ELSE "medium"]
    IN  C16_KeyLeq(Medium(a), Medium(b))

\* C17: a task whose priority is none of low, medium, high is treated as
\* medium: it is ordered among the medium tasks, after the high and before
\* the low ones, and rendered with the medium glyph and the reason 'medium
\* priority'.
C17_UnknownPriorityAsMedium ==
    PrioritizedSome =>
        LET text == ret.value
            n == Len(call.tasks)
            item(p, i) == C16_Item(call.tasks[p[i]])
            Unknown(p, i) ==
                item(p, i).priority \notin {"high", "medium", "low"}
        IN  \E p \in RenderedOrders(call.tasks, text) :
               /\ \A i, j \in 1..n :
                      i < j => C17_KeyLeq(item(p, i), item(p, j))
               /\ \A i \in 1..n :
                      Unknown(p, i) =>
                         /\ EntryLine(text, i)[3] = "(-)"
                         /\ ReasonLine(text, i)[2] = "medium priority"

\* C18: a task whose status is none of todo, in_progress, done is ordered
\* as a todo task: among the tasks of its priority it comes after every
\* in_progress task and before every done task.
C18_UnknownStatusAsTodo ==
    PrioritizedSome =>
        LET text == ret.value
            n == Len(call.tasks)
            item(p, i) == C16_Item(call.tasks[p[i]])
            Unknown(p, i) ==
                item(p, i).status \notin {"todo", "in_progress", "done"}
        IN  \E p \in RenderedOrders(call.tasks, text) :
               \A i, j \in 1..n :
                  (Unknown(p, i)
                     /\ item(p, j).priority = item(p, i).priority) =>
                     /\ item(p, j).status = "in_progress" => j < i
                     /\ item(p, j).status = "done" => i < j

\* The rendered text from the Total Tasks line on: all but the timestamp.
RenderedList(text) == SubSeq(text, 4, Len(text))

\* The tasks in the arrangement q.
Permuted(tasks, q) == [i \in DOMAIN tasks |-> tasks[q[i]]]

\* Every arrangement of the tasks of the call renders the list of the call.
AnyArrangementRendersSame ==
    \A q \in Perms(Len(call.tasks)) :
        RenderedList(prioritize_tasks(Permuted(call.tasks, q), call.ts).value)
            = RenderedList(ret.value)

\* No two different tasks of the sequence have the same key.
KeysTellTasksApart(tasks) ==
    \A i, j \in DOMAIN tasks :
        C16_Item(tasks[i]) # C16_Item(tasks[j]) =>
            ~(/\ C16_KeyLeq(C16_Item(tasks[i]), C16_Item(tasks[j]))
              /\ C16_KeyLeq(C16_Item(tasks[j]), C16_Item(tasks[i])))

\* C19 (as stated): the rendered list depends only on the multiset of the
\* input tasks: any two arrangements of the same tasks, duplicate titles
\* and titles differing only in letter case included, render the same list.
C19_AnyPermutationSameList == PrioritizedSome => AnyArrangementRendersSame

\* C19 (amended): arrangements of the same tasks render the same list when
\* no two different tasks have the same key (equal weights and equal
\* lower-cased titles); tasks of the same key are rendered in input order.
C19_DistinctKeysSameList ==
    PrioritizedSome =>
        LET n == Len(call.tasks)
            item(p, i) == C16_Item(call.tasks[p[i]])
        IN  /\ KeysTellTasksApart(call.tasks) => AnyArrangementRendersSame
            /\ \E p \in RenderedOrders(call.tasks, ret.value) :
                   \A i, j \in 1..n :
                      (i < j /\ C16_KeyLeq(item(p, j), item(p, i))) =>
                          p[i] < p[j]

C19_Witness ==
    /\ PrioritizedSome
    /\ ~call.again
    /\ call.tasks =
          << [title |-> "beta", status |-> "todo", priority |-> "medium"],
             [title |-> "Alpha", status |-> "todo", priority |-> "medium"] >>
    /\ EntryLine(ret.value, 1)[5] = "Alpha"
    /\ EntryLine(ret.value, 2)[5] = "beta"

\* C20: feeding the tasks back in the order the prioritizer rendered them
\* yields the same rendered order.
C20_ResortingKeepsOrder ==
    (PrioritizedSome /\ call.again) =>
        RenderedList(ret.value) = RenderedList(call.first)

C20_Witness ==
    /\ PrioritizedSome
    /\ call.again
    /\ call.tasks =
          << [title |-> "Alpha", status |-> "todo", priority |-> "low"],
             [title |-> "alpha", status |-> "todo", priority |-> "urgent"] >>
    /\ EntryLine(call.first, 1)[5] = "Alpha"
    /\ EntryLine(ret.value, 1)[5] = "Alpha"

(***************************************************************************)
(* Empty task sequences                                                    *)
(***************************************************************************)
NoTasksText == << <<"No tasks to prioritize.">> >>

\* The input map of an execute_skill call holds no task: no tasks key, or an
\* empty list under it.
DispatchedWithoutTasks ==
    /\ ExecuteCalled
    /\ "tasks" \in DOMAIN call.input_payload
          => Len(call.input_payload.tasks) = 0

\* C21: prioritize_tasks on an empty task sequence, and the prioritizer kind
\* dispatched without tasks, return exactly the text 'No tasks to
\* prioritize.' and do not fail.
C21_NoTasksMessage ==
    /\ (PrioritizeCalled /\ Len(call.tasks) = 0) =>
           ret = [raised |-> FALSE, value |-> NoTasksText]
    /\ (DispatchedWithoutTasks /\ call.skill_type = SkillType_PRIORITIZER) =>
           /\ ~ret.raised
           /\ ret.value.output = NoTasksText

C21_Witness ==
    /\ ExecuteCalled
    /\ call.skill_type = SkillType_PRIORITIZER
    /\ "tasks" \notin DOMAIN call.input_payload
    /\ ~ret.raised
    /\ ret.value.output = NoTasksText

(***************************************************************************)
(* Daily status summary                                                    *)
(***************************************************************************)
SummaryCalled == call.fn = "generate_daily_summary"

SummaryRendered == SummaryCalled /\ ~ret.raised

\* The lines of the section under the heading: those between the heading
\* line and the next blank line.
SectionOf(text, heading) ==
    LET k == CHOOSE i \in DOMAIN text : text[i] = <<heading>>
        e == CHOOSE j \in (k + 1)..Len(text) :
                /\ text[j] = <<>>
                /\ \A l \in (k + 1)..(j - 1) : text[l] # <<>>
    IN  SubSeq(text, k + 1, e - 1)

\* The task of a summary with the defaults of its missing fields.
C22_Item(t) ==
    [title |-> IF "title" \in DOMAIN t THEN t.title ELSE "Untitled",
     status |-> IF "status" \in DOMAIN t THEN t.status ELSE "todo",
     priority |-> IF "priority" \in DOMAIN t THEN t.priority ELSE "medium",
     blocked |-> IF "blocked" \in DOMAIN t THEN t.blocked ELSE FALSE,
     blocker_reason |->
         IF "blocker_reason" \in DOMAIN t THEN t.blocker_reason ELSE None]

C22_Items(tasks) == [i \in DOMAIN tasks |-> C22_Item(tasks[i])]

C22_Done(t) == t.status = "done"

C22_InProgress(t) == t.status = "in_progress"

C22_Blocked(t) == t.blocked

C22_ToDo(t) == t.status = "todo" /\ ~t.blocked

\* The section lists the tasks, one line each and in their order, by title
\* (the second fragment of a line), or holds the placeholder for no task.
ListsTitles(section, tasks, placeholder) ==
    IF Len(tasks) = 0 THEN section = << <<placeholder>> >>
    ELSE /\ Len(section) = Len(tasks)
         /\ \A i \in DOMAIN tasks :
                /\ section[i][1] = "- "
                /\ section[i][2] = tasks[i].title

\* The row of the totals table for a bucket.
StatsRow(text, label, n) == HasLine(text, <<label, ToString(n), " |">>)

\* C22: the summary lists under Completed the tasks of status done, under
\* In Progress those of status in_progress, under Blocked those with the
\* blocked flag whatever their status (with the blocker_reason when there
\* is one), and counts as To Do the tasks of status todo that are not
\* blocked; a blocked todo task is in Blocked, not in the To Do count and
\* not in Next Up, and a blocked done or in_progress task is in its status
\* section and in Blocked.
C22_SummaryGroups ==
    SummaryRendered =>
        LET text == ret.value
            items == C22_Items(call.tasks)
            blocked == SelectSeq(items, C22_Blocked)
            blocked_lines == SectionOf(text, "## Blocked")
            next_up == SectionOf(text, "## Next Up")
        IN  /\ ListsTitles(SectionOf(text, "## Completed"),
                           SelectSeq(items, C22_Done),
                           "- _No tasks completed_")
            /\ ListsTitles(SectionOf(text, "## In Progress"),
                           SelectSeq(items, C22_InProgress),
                           "- _No tasks in progress_")
            /\ ListsTitles(blocked_lines, blocked, "- _No blockers_")
            /\ \A i \in DOMAIN blocked :
                   blocked_lines[i] =
                      IF blocked[i].blocker_reason = None
                      THEN <<"- ", blocked[i].title>>
                      ELSE <<"- ", blocked[i].title, " - ",
                             blocked[i].blocker_reason>>
            /\ StatsRow(text, "| Completed | ",
                        Len(SelectSeq(items, C22_Done)))
            /\ StatsRow(text, "| In Progress | ",
                        Len(SelectSeq(items, C22_InProgress)))
            /\ StatsRow(text, "| Blocked | ", Len(blocked))
            /\ StatsRow(text, "| To Do | ", Len(SelectSeq(items, C22_ToDo)))
            /\ \A i \in DOMAIN next_up :
                   Len(next_up[i]) > 1 =>
                      \E j \in DOMAIN items :
                         /\ items[j].title = next_up[i][2]
                         /\ C22_ToDo(items[j])

C22_Witness ==
    /\ SummaryRendered
    /\ call.tasks =
          << [title |-> "epsilon", status |-> "todo", priority |-> "high",
              blocked |-> TRUE, blocker_reason |-> "Waiting on vendor"],
             [title |-> "zeta", status |-> "done", blocked |-> TRUE] >>
    /\ SectionOf(ret.value, "## Blocked") =
          << <<"- ", "epsilon", " - ", "Waiting on vendor">>,
             <<"- ", "zeta">> >>
    /\ SectionOf(ret.value, "## Completed") = << <<"- ", "zeta">> >>
    /\ SectionOf(ret.value, "## Next Up") = << <<"- _No pending tasks_">> >>
    /\ StatsRow(ret.value, "| To Do | ", 0)

C23_High(t) == t.priority = "high"

\* The first three items of a sequence.
C23_FirstThree(items) ==
    SubSeq(items, 1, IF Len(items) < 3 THEN Len(items) ELSE 3)

\* C23: Next Up lists at most three tasks, all unblocked todo tasks, in
\* input order: the first three unblocked todo tasks of priority high when
\* there is one, otherwise the first three unblocked todo tasks; it never
\* mixes high and other tasks and is empty iff no task is unblocked todo.
C23_NextUp ==
    SummaryRendered =>
        LET next_up == SectionOf(ret.value, "## Next Up")
            todo == SelectSeq(C22_Items(call.tasks), C22_ToDo)
            high == SelectSeq(todo, C23_High)
            expected == IF Len(high) > 0 THEN C23_FirstThree(high)
                        ELSE C23_FirstThree(todo)
        IN  /\ Len(next_up) <= 3
            /\ ListsTitles(next_up, expected, "- _No pending tasks_")
            /\ (next_up = << <<"- _No pending tasks_">> >>) <=> (Len(todo) = 0)
            /\ \/ \A i \in DOMAIN next_up : Len(next_up[i]) = 4
                                              /\ next_up[i][4] = "[HIGH]"
               \/ \A i \in DOMAIN next_up : Len(next_up[i]) <= 2

C23_Witness ==
    /\ SummaryRendered
    /\ call.tasks =
          << [title |-> "alpha", status |-> "todo"],
             [title |-> "gamma", status |-> "todo", priority |-> "high"],
             [title |-> "delta", status |-> "todo", priority |-> "high"],
             [title |-> "gamma", status |-> "todo", priority |-> "high"] >>
    /\ SectionOf(ret.value, "## Next Up") =
          << <<"- ", "gamma", " ", "[HIGH]">>,
             <<"- ", "delta", " ", "[HIGH]">>,
             <<"- ", "gamma", " ", "[HIGH]">> >>

\* C24: generate_daily_summary on an empty task sequence does not fail: it
\* renders the four sections Completed, In Progress, Blocked and Next Up,
\* each with its placeholder, and a totals table showing 0 for Completed,
\* In Progress, Blocked, To Do and Total.
C24_EmptySummary ==
    (SummaryCalled /\ Len(call.tasks) = 0) =>
        /\ ~ret.raised
        /\ SectionOf(ret.value, "## Completed") =
               << <<"- _No tasks completed_">> >>
        /\ SectionOf(ret.value, "## In Progress") =
               << <<"- _No tasks in progress_">> >>
        /\ SectionOf(ret.value, "## Blocked") = << <<"- _No blockers_">> >>
        /\ SectionOf(ret.value, "## Next Up") =
               << <<"- _No pending tasks_">> >>
        /\ StatsRow(ret.value, "| Completed | ", 0)
        /\ StatsRow(ret.value, "| In Progress | ", 0)
        /\ StatsRow(ret.value, "| Blocked | ", 0)
        /\ StatsRow(ret.value, "| To Do | ", 0)
        /\ HasLine(ret.value, <<"| **Total** | **", "0", "** |">>)

C24_Witness ==
    /\ SummaryRendered
    /\ call.tasks = <<>>
    /\ HasLine(ret.value, <<"## Next Up">>)
    /\ HasLine(ret.value, <<"- _No pending tasks_">>)
    /\ HasLine(ret.value, <<"| **Total** | **", "0", "** |">>)

\* The count a row of the totals table shows.
RowCount(text, label) ==
    CHOOSE n \in 0..(Len(text)) : StatsRow(text, label, n)

\* A task that the todo fallback puts in the To Do bucket: not blocked and
\* of a status that is neither done nor in_progress.
C25_ToDoOrFallback(t) == ~t.blocked /\ t.status \notin {"done", "in_progress"}

\* C25: a task whose status is none of todo, in_progress, done makes no
\* failure and is counted as a todo task, so every task is counted in at
\* least one of the rows Completed, In Progress, Blocked and To Do, and the
\* Total row is the number of input tasks.
C25_EveryTaskCounted ==
    SummaryCalled =>
        /\ ~ret.raised
        /\ HasLine(ret.value, <<"| **Total** | **",
                                ToString(Len(call.tasks)), "** |">>)
        /\ StatsRow(ret.value, "| To Do | ",
                    Len(SelectSeq(C22_Items(call.tasks), C25_ToDoOrFallback)))
        /\ RowCount(ret.value, "| Completed | ")
             + RowCount(ret.value, "| In Progress | ")
             + RowCount(ret.value, "| Blocked | ")
             + RowCount(ret.value, "| To Do | ") >= Len(call.tasks)

(***************************************************************************)
(* Properties of the task store.                                           *)
(***************************************************************************)
\* The ids of the tasks that exist: handed out by a create and not removed
\* by a delete since.
Existing == issued \ removed

\* C26: after any sequence of create, update and delete requests, GET
\* /tasks/{id} answers 200 with the stored task, the one the last write left,
\* exactly when the id was returned by a create and not deleted since, and
\* 404 otherwise; GET /tasks returns the existing tasks and no other, each
\* once.
C26_ReadsWhatExists ==
    /\ resp.op = "GET" =>
          /\ db = resp.before
          /\ IF resp.id \in Existing
             THEN /\ resp.status = 200
                  /\ resp.task = Present(db[resp.id])
             ELSE resp.status = 404
    /\ resp.op \in {"POST", "PUT"} /\ resp.status \in {200, 201} =>
          /\ resp.id \in Existing
          /\ resp.task = Present(db[resp.id])
    /\ resp.op = "LIST" =>
          /\ resp.status = 200
          /\ {resp.tasks[i].id : i \in DOMAIN resp.tasks} = Existing
          /\ Len(resp.tasks) = Cardinality(Existing)
          /\ \A i \in DOMAIN resp.tasks :
                resp.tasks[i] = db[resp.tasks[i].id]

\* A task updated after its creation is read back while another task has
\* been deleted.
C26_Witness ==
    /\ resp.op = "GET"
    /\ resp.status = 200
    /\ resp.task.v.updated_at > resp.task.v.created_at
    /\ removed # {}

\* C27: DELETE /tasks/{id} on an existing task answers 204, removes that task
\* and leaves every other task as it was; on an id that does not exist,
\* never created or already deleted, it answers 404 and leaves the store
\* unchanged, so the second delete of a task answers 404.
C27_DeleteRemovesOne ==
    resp.op = "DELETE" =>
        IF resp.id \in DOMAIN resp.before
        THEN /\ resp.status = 204
             /\ DOMAIN db = DOMAIN resp.before \ {resp.id}
             /\ \A task_id \in DOMAIN db : db[task_id] = resp.before[task_id]
        ELSE /\ resp.status = 404
             /\ db = resp.before

\* A task deleted before is deleted again, another task in the store.
C27_Witness ==
    /\ resp.op = "DELETE"
    /\ resp.id \in removed
    /\ resp.status = 404
    /\ db # EmptyTable

RunAlone(table, session) ==
    IF session.op = "PUT"
    THEN update_task(table, session.id, session.body, clock).table
    ELSE delete_task(table, session.id).table

\* Two finished requests on one task, an update among them, that both loaded
\* the task before either committed.
RanTogether(w1, w2) ==
    /\ w1 # w2
    /\ sessions[w1] # NoSession
    /\ sessions[w2] # NoSession
    /\ sessions[w1].pc = "done"
    /\ sessions[w2].pc = "done"
    /\ sessions[w1].op = "PUT"
    /\ sessions[w1].id = sessions[w2].id
    /\ sessions[w1].loaded.has
    /\ sessions[w1].loaded = sessions[w2].loaded

\* C30: when two updates, or an update and a delete, of one task run
\* together, the stored task is the one that running the two requests one
\* after the other, in one of the two orders, leaves.
C30_ConcurrentAsSerial ==
    \A w1, w2 \in Workers :
        RanTogether(w1, w2) =>
            LET task_id == sessions[w1].id
                found == [id \in {task_id} |-> sessions[w1].loaded.v]
                stored == session_get(db, task_id)
            IN  \/ stored = session_get(RunAlone(RunAlone(found, sessions[w1]),
                                                 sessions[w2]), task_id)
                \/ stored = session_get(RunAlone(RunAlone(found, sessions[w2]),
                                                 sessions[w1]), task_id)

====
